---- MODULE Spec2Model ----
(***************************************************************************)
(* Secure-session protocol stack of the messaging application:            *)
(*   - the client replay guard (crypto/replayProtection.js),               *)
(*   - the server replay middleware and POST /api/messages,                *)
(*   - the signed-ECDH handshake (crypto/keyExchange.js),                  *)
(*   - the server key-exchange routes (routes/keyExchange.js).             *)
(* Times are milliseconds, as Date.now() returns them.                     *)
(***************************************************************************)
EXTENDS Integers, Sequences, FiniteSets, TLC

(***************************************************************************)
(* Program constants.                                                      *)
(***************************************************************************)
\* maxAge = 5 * 60 * 1000 of validateMessageMetadata
MAX_AGE == 300000
\* the literal 60000 of the future-timestamp test
CLOCK_SKEW == 60000
\* recordNonce: expiresAt = Date.now() + (60 * 60 * 1000)
NONCE_TTL == 3600000
\* maxAge = 5 * 60 * 1000 of validateReplayProtection (server middleware)
SERVER_MAX_AGE == 300000
\* the literal 60000 of the middleware's future-timestamp test
SERVER_CLOCK_SKEW == 60000

\* maxAge = 5 * 60 * 1000 of respondToKeyExchange and completeKeyExchange
KX_MAX_AGE == 300000
\* CLOCK_SKEW_TOLERANCE of the protocol's documented constants
KX_CLOCK_SKEW == 60000
\* keyExchangeSchema.expiresAt: Date.now() + 10 * 60 * 1000
KX_EXPIRES_IN == 600000

(***************************************************************************)
(* Bounds of the model.                                                    *)
(***************************************************************************)
\* initiateKeyExchange is called at most MaxInit times
MaxInit == 1
\* plaintext messages have at most MaxMsgLen characters
MaxMsgLen == 2
\* encryptMessage / encryptFile are called while fewer than MaxIvLog AEAD
\* encryptions have been made under the session key
MaxIvLog == 3
\* files have at most MaxFileLen bytes
MaxFileLen == 5
\* encryptFile's CHUNK_SIZE (64 * 1024 in the code), scaled down to bytes the
\* model can enumerate
CHUNK_SIZE == 2
\* POST /api/messages requests are taken while fewer than MaxPosts messages are stored
MaxPosts == 2
\* the ChatApp sends at most MaxSends messages and files
MaxSends == 3
\* at most MaxCalls overlapping validateMessageMetadata calls are started
MaxCalls == 2
\* respondToKeyExchange succeeds at most MaxResp times
MaxResp == 2
\* the server creates at most MaxExchanges key exchange documents
MaxExchanges == 2
\* Date.now() at the start of a behaviour
T0 == 4000000
\* how many times the clock is advanced in one behaviour
MaxTicks == 2
\* sequence numbers offered to the validators are 0..MaxSeq
MaxSeq == 1

\* conversation ids (the selected peer's _id) and nonces (base64 of 16 random bytes)
Convs == {"u1", "u2"}
Nonces == {"n1", "n2"}
Seqs == 0..MaxSeq
\* the clock advances by one of these amounts
TickSteps == {1, NONCE_TTL}
\* a timestamp offered to a validator is Date.now() plus one of these
TsOffsets == {0 - (MAX_AGE + 1), 0 - MAX_AGE, 0, CLOCK_SKEW, CLOCK_SKEW + 1}

VARIABLES
    now,            \* Date.now()
    ticks,          \* number of clock advances so far
    nonceStore,     \* IndexedDB object store 'nonces': records {id, expiresAt}
    sequenceStore,  \* IndexedDB object store 'sequences': records {id, nextSequence}
    last,           \* the last validateMessageMetadata call and what it returned
    nonceWrites,    \* history: the nonce keys recordNonce wrote, and those a historical validation wrote again
    lastAccepted,   \* per conversation: the sequence number last accepted in live mode, {} when none since the last clear
    messages,       \* server collection Message
    lastPost,       \* the last POST /api/messages request and its response
    drift,          \* per user: how far the device clock is ahead of the reference clock
    wire,           \* the signed handshake messages the relay has seen, with their senders
    kxPending,      \* initiator: pending initiations {ecdhPrivateKey, nonce} (sessionStorage ecdhKeyPair_<id>)
    sessA,          \* initiator: the session keys completeKeyExchange returned
    sessB,          \* responder: the session keys respondToKeyExchange returned
    initCount,      \* number of initiateKeyExchange calls
    respCount,      \* number of successful respondToKeyExchange calls
    lastKx,         \* the last respondToKeyExchange and completeKeyExchange calls
    keyExchanges,   \* server: the KeyExchange collection
    nextId,         \* server: number of KeyExchange documents created so far
    inflight,       \* server: per request slot, the /api/keyexchange request suspended at an await
    lastRoute,      \* server: the last /api/keyexchange response sent
    appPending,     \* ChatApp of alice: sessionStorage ecdhKeyPair_<id> entries
    appSessionKey,  \* ChatApp of alice: the sessionKey state, {} while unset
    rejected,       \* ids of the key exchanges whose responder message completeKeyExchange refused
    appSequenceNumber, \* ChatApp: the sequenceNumber state
    selectedUser,   \* ChatApp: the selected contact, "none" when null
    attached,       \* history: per conversation, the sequence numbers attached to sends, in order
    calls,          \* the validateMessageMetadata calls started so far, each with its position and locals
    cipherRun,      \* the last encryptMessage / decryptMessage run: inputs and outcome
    fileRun,        \* the last encryptFile / decryptFile run: inputs and outcome
    ivLog,          \* history: per AEAD encryption under the session key, the iv drawn for it and the iv it used
    keyStorage,     \* IndexedDB object store 'keys': per user the privateKey_<userId> record, None when absent
    keyRun,         \* the last retrievePrivateKey call: what was stored, the arguments and the outcome
    shown,          \* history: per sender and ciphertext that decryptAndDisplayMessage returned as plaintext, how often in live mode (2: more than once)
    demo,           \* replay demo script: seenNonces, conversationSequence and the last result of validateReplayProtection
    accepted,       \* history: the envelopes validateMessageMetadata accepted in live mode
    msgInflight,    \* server: per request slot, the POST /api/messages request suspended before Message.create
    keyOrder        \* browser of alice: the order in which Object.keys(sessionStorage) lists the ecdhKeyPair_<id> entries

replayVars == <<nonceStore, sequenceStore, last, lastAccepted, nonceWrites>>
serverMsgVars == <<messages, lastPost>>
handshakeVars == <<drift, wire, kxPending, sessA, sessB, initCount, respCount, lastKx>>
serverKxVars == <<keyExchanges, nextId, inflight, lastRoute>>
senderVars == <<appSequenceNumber, selectedUser, attached>>
appVars == <<appPending, appSessionKey, rejected, senderVars>>
cryptoVars == <<cipherRun, fileRun>>
auxVars == <<demo, accepted, msgInflight, keyOrder>>
logVars == <<ivLog, keyStorage, keyRun, shown, auxVars>>
vars == <<now, ticks, nonceStore, sequenceStore, last, lastAccepted, nonceWrites, messages, lastPost,
          drift, wire, kxPending, sessA, sessB, initCount, respCount, lastKx,
          keyExchanges, nextId, inflight, lastRoute,
          appPending, appSessionKey, rejected, appSequenceNumber, selectedUser, attached,
          calls, cipherRun, fileRun, ivLog, keyStorage, keyRun, shown,
          demo, accepted, msgInflight, keyOrder>>

(***************************************************************************)
(* Client replay guard: validateMessageMetadata and its helpers.           *)
(***************************************************************************)
\* variant: the key is the nonce alone
NonceKey_NonceOnly(conversationId, nonce) == <<"", nonce>>

\* key = `${conversationId}:${nonce}`
NonceKey(conversationId, nonce) == <<conversationId, nonce>>

\* store.get(key) -> !!request.result
HasSeenNonce(store, nonce, conversationId) ==
    \E r \in store : r.id = NonceKey(conversationId, nonce)

\* variant: a record is deleted from the moment of its expiry on
CleanExpiredNonces_Inclusive(store, t) == {r \in store : ~(r.expiresAt <= t)}

\* cursor over the store: delete every record with expiresAt < now
CleanExpiredNonces(store, t) == {r \in store : ~(r.expiresAt < t)}

\* store.put({id: key, ..., expiresAt}) then cleanExpiredNonces()
RecordNonce(store, nonce, conversationId, t) ==
    CleanExpiredNonces(
        {r \in store : r.id # NonceKey(conversationId, nonce)}
            \cup {[id |-> NonceKey(conversationId, nonce), expiresAt |-> t + NONCE_TTL]},
        t)

\* data ? data.nextSequence : 0
GetNextSequenceNumber(store, conversationId) ==
    IF \E r \in store : r.id = conversationId
    THEN (CHOOSE r \in store : r.id = conversationId).nextSequence
    ELSE 0

\* variant: the stored value is the sequence number itself
UpdateSequenceNumber_NoIncrement(store, conversationId, sequenceNumber) ==
    {r \in store : r.id # conversationId}
        \cup {[id |-> conversationId, nextSequence |-> sequenceNumber]}

\* store.put({id: conversationId, nextSequence: sequenceNumber + 1})
UpdateSequenceNumber(store, conversationId, sequenceNumber) ==
    {r \in store : r.id # conversationId}
        \cup {[id |-> conversationId, nextSequence |-> sequenceNumber + 1]}

\* variant: the age test with >= in place of >
FreshnessCheck_AgeInclusive(timestamp, t) ==
    IF t - timestamp >= MAX_AGE THEN "MESSAGE_EXPIRED"
    ELSE IF timestamp > t + CLOCK_SKEW THEN "FUTURE_TIMESTAMP"
    ELSE "OK"

\* the two timestamp tests of live mode, in the code's order
FreshnessCheck(timestamp, t) ==
    IF t - timestamp > MAX_AGE THEN "MESSAGE_EXPIRED"
    ELSE IF timestamp > t + CLOCK_SKEW THEN "FUTURE_TIMESTAMP"
    ELSE "OK"

\* variant: the nonce test left out
NonceCheck_Skipped(nonceUsed, isHistorical) == "OK"

\* the nonce test: a recorded nonce is a replay in live mode only
NonceCheck(nonceUsed, isHistorical) ==
    IF nonceUsed /\ ~isHistorical THEN "DUPLICATE_NONCE" ELSE "OK"

\* variant: the sequence test off by one (the last accepted number passes again)
SequenceCheck_OffByOne(sequenceNumber, expectedSequence) ==
    IF sequenceNumber + 1 < expectedSequence THEN "OLD_SEQUENCE" ELSE "OK"

\* the sequence test of live mode
SequenceCheck(sequenceNumber, expectedSequence) ==
    IF sequenceNumber < expectedSequence THEN "OLD_SEQUENCE" ELSE "OK"

\* variant: historical mode records the nonce whether or not it is already stored
HistoricalRecordNonce_Always(nonceUsed, nStore, nonce, conversationId, t) ==
    RecordNonce(nStore, nonce, conversationId, t)

\* historical mode: if (!nonceUsed) await recordNonce(metadata.nonce, conversationId)
HistoricalRecordNonce(nonceUsed, nStore, nonce, conversationId, t) ==
    IF nonceUsed THEN nStore ELSE RecordNonce(nStore, nonce, conversationId, t)

\* variant: the sequence number is tested before the nonce
ValidateMessageMetadata_SequenceFirst(metadata, conversationId, isHistorical, nStore, sStore, t) ==
    LET fresh == IF isHistorical THEN "OK" ELSE FreshnessCheck(metadata.timestamp, t)
        nonceUsed == HasSeenNonce(nStore, metadata.nonce, conversationId)
        dup == NonceCheck(nonceUsed, isHistorical)
        expectedSequence == GetNextSequenceNumber(sStore, conversationId)
        unchanged == [nonces |-> nStore, sequences |-> sStore]
    IN  IF fresh # "OK" THEN [reason |-> fresh] @@ unchanged
        ELSE IF ~isHistorical /\ SequenceCheck(metadata.sequenceNumber, expectedSequence) # "OK"
        THEN [reason |-> "OLD_SEQUENCE"] @@ unchanged
        ELSE IF dup # "OK" THEN [reason |-> dup] @@ unchanged
        ELSE IF isHistorical
        THEN [reason |-> "VALID",
              nonces |-> HistoricalRecordNonce(nonceUsed, nStore, metadata.nonce,
                                               conversationId, t),
              sequences |-> IF metadata.sequenceNumber >= expectedSequence
                            THEN UpdateSequenceNumber(sStore, conversationId,
                                                      metadata.sequenceNumber)
                            ELSE sStore]
        ELSE [reason |-> "VALID",
              nonces |-> RecordNonce(nStore, metadata.nonce, conversationId, t),
              sequences |-> UpdateSequenceNumber(sStore, conversationId,
                                                 metadata.sequenceNumber)]

\* variant: live mode records the nonce before it tests the sequence number
ValidateMessageMetadata_RecordBeforeSequence(metadata, conversationId, isHistorical, nStore, sStore, t) ==
    LET fresh == IF isHistorical THEN "OK" ELSE FreshnessCheck(metadata.timestamp, t)
        nonceUsed == HasSeenNonce(nStore, metadata.nonce, conversationId)
        dup == NonceCheck(nonceUsed, isHistorical)
        expectedSequence == GetNextSequenceNumber(sStore, conversationId)
        unchanged == [nonces |-> nStore, sequences |-> sStore]
    IN  IF fresh # "OK" THEN [reason |-> fresh] @@ unchanged
        ELSE IF dup # "OK" THEN [reason |-> dup] @@ unchanged
        ELSE IF isHistorical
        THEN [reason |-> "VALID",
              nonces |-> HistoricalRecordNonce(nonceUsed, nStore, metadata.nonce,
                                               conversationId, t),
              sequences |-> IF metadata.sequenceNumber >= expectedSequence
                            THEN UpdateSequenceNumber(sStore, conversationId,
                                                      metadata.sequenceNumber)
                            ELSE sStore]
        ELSE IF SequenceCheck(metadata.sequenceNumber, expectedSequence) # "OK"
        THEN [reason |-> "OLD_SEQUENCE",
              nonces |-> RecordNonce(nStore, metadata.nonce, conversationId, t),
              sequences |-> sStore]
        ELSE [reason |-> "VALID",
              nonces |-> RecordNonce(nStore, metadata.nonce, conversationId, t),
              sequences |-> UpdateSequenceNumber(sStore, conversationId,
                                                 metadata.sequenceNumber)]

\* variant: live mode tests the nonce alone, neither the timestamp nor the
\* sequence number
ValidateMessageMetadata_NonceOnly(metadata, conversationId, isHistorical, nStore, sStore, t) ==
    LET nonceUsed == HasSeenNonce(nStore, metadata.nonce, conversationId)
        dup == NonceCheck(nonceUsed, isHistorical)
        expectedSequence == GetNextSequenceNumber(sStore, conversationId)
    IN  IF dup # "OK" THEN [reason |-> dup, nonces |-> nStore, sequences |-> sStore]
        ELSE IF isHistorical
        THEN [reason |-> "VALID",
              nonces |-> HistoricalRecordNonce(nonceUsed, nStore, metadata.nonce,
                                               conversationId, t),
              sequences |-> IF metadata.sequenceNumber >= expectedSequence
                            THEN UpdateSequenceNumber(sStore, conversationId,
                                                      metadata.sequenceNumber)
                            ELSE sStore]
        ELSE [reason |-> "VALID",
              nonces |-> RecordNonce(nStore, metadata.nonce, conversationId, t),
              sequences |-> UpdateSequenceNumber(sStore, conversationId,
                                                 metadata.sequenceNumber)]

\* validateMessageMetadata(metadata, conversationId, {isHistorical}) run at time t
\* on the two stores: the returned reason ("VALID" for {valid: true}) and the
\* stores it leaves behind.
ValidateMessageMetadata(metadata, conversationId, isHistorical, nStore, sStore, t) ==
    LET fresh == IF isHistorical THEN "OK" ELSE FreshnessCheck(metadata.timestamp, t)
        nonceUsed == HasSeenNonce(nStore, metadata.nonce, conversationId)
        dup == NonceCheck(nonceUsed, isHistorical)
        expectedSequence == GetNextSequenceNumber(sStore, conversationId)
        unchanged == [nonces |-> nStore, sequences |-> sStore]
    IN  IF fresh # "OK" THEN [reason |-> fresh] @@ unchanged
        ELSE IF dup # "OK" THEN [reason |-> dup] @@ unchanged
        ELSE IF isHistorical
        THEN [reason |-> "VALID",
              nonces |-> HistoricalRecordNonce(nonceUsed, nStore, metadata.nonce,
                                               conversationId, t),
              sequences |-> IF metadata.sequenceNumber >= expectedSequence
                            THEN UpdateSequenceNumber(sStore, conversationId,
                                                      metadata.sequenceNumber)
                            ELSE sStore]
        ELSE IF SequenceCheck(metadata.sequenceNumber, expectedSequence) # "OK"
        THEN [reason |-> "OLD_SEQUENCE"] @@ unchanged
        ELSE [reason |-> "VALID",
              nonces |-> RecordNonce(nStore, metadata.nonce, conversationId, t),
              sequences |-> UpdateSequenceNumber(sStore, conversationId,
                                                 metadata.sequenceNumber)]

\* clearReplayProtectionData(conversationId), conversationId given
ClearNonces(store, conversationId) == {r \in store : r.id[1] # conversationId}
ClearSequences(store, conversationId) == {r \in store : r.id # conversationId}

NoCall == [op |-> "none"]

\* One call of validateMessageMetadata, run to completion.
ValidateCall(conversationId, nonce, timestamp, sequenceNumber, isHistorical) ==
    LET metadata == [nonce |-> nonce, timestamp |-> timestamp,
                     sequenceNumber |-> sequenceNumber]
        out == ValidateMessageMetadata(metadata, conversationId, isHistorical,
                                       nonceStore, sequenceStore, now)
    IN  /\ nonceStore' = out.nonces
        /\ sequenceStore' = out.sequences
        /\ last' = [op |-> "validate", conversationId |-> conversationId,
                    isHistorical |-> isHistorical,
                    offset |-> timestamp - now, sequenceNumber |-> sequenceNumber,
                    reason |-> out.reason]
        /\ lastAccepted' =
              IF out.reason = "VALID" /\ ~isHistorical
              THEN [lastAccepted EXCEPT ![conversationId] = {sequenceNumber}]
              ELSE lastAccepted
        /\ UNCHANGED <<ivLog, keyStorage, keyRun, cryptoVars, calls, appVars, now, ticks, serverMsgVars, handshakeVars, serverKxVars>>

\* a call of validateMessageMetadata
Validate(conversationId, nonce, timestamp, sequenceNumber, isHistorical) ==
    /\ ValidateCall(conversationId, nonce, timestamp, sequenceNumber, isHistorical)
    /\ UNCHANGED <<nonceWrites, shown, auxVars>>

\* a call of validateMessageMetadata, with the history of recordNonce writes kept:
\* live mode records on acceptance, historical mode when the nonce is not stored
ValidateTracked(conversationId, nonce, timestamp, sequenceNumber, isHistorical) ==
    /\ ValidateCall(conversationId, nonce, timestamp, sequenceNumber, isHistorical)
    /\ nonceWrites' =
          IF last'.reason = "VALID"
             /\ (~isHistorical \/ ~HasSeenNonce(nonceStore, nonce, conversationId))
          THEN [written |-> nonceWrites.written \cup {NonceKey(conversationId, nonce)},
                rewritten |-> nonceWrites.rewritten \cup
                    (IF isHistorical
                     THEN {NonceKey(conversationId, nonce)} \cap nonceWrites.written
                     ELSE {})]
          ELSE nonceWrites
    /\ UNCHANGED <<shown, auxVars>>

\* a call of validateMessageMetadata, with the history of the envelopes
\* accepted in live mode kept
ValidateLogged(conversationId, nonce, timestamp, sequenceNumber, isHistorical) ==
    /\ ValidateCall(conversationId, nonce, timestamp, sequenceNumber, isHistorical)
    /\ accepted' =
          IF last'.reason = "VALID" /\ ~isHistorical
          THEN accepted \cup {[conversationId |-> conversationId, nonce |-> nonce,
                               timestamp |-> timestamp, sequenceNumber |-> sequenceNumber]}
          ELSE accepted
    /\ UNCHANGED <<nonceWrites, shown, demo, msgInflight, keyOrder>>

\* handleClearSession -> clearReplayProtectionData(selectedUser._id)
ClearReplayProtectionData(conversationId) ==
    /\ nonceStore' = ClearNonces(nonceStore, conversationId)
    /\ sequenceStore' = ClearSequences(sequenceStore, conversationId)
    /\ lastAccepted' = [lastAccepted EXCEPT ![conversationId] = {}]
    /\ last' = [op |-> "clear"]
    /\ UNCHANGED nonceWrites
    /\ UNCHANGED <<logVars, cryptoVars, calls, appVars, now, ticks, serverMsgVars, handshakeVars, serverKxVars>>

\* time passes
Tick(d) ==
    /\ ticks < MaxTicks
    /\ now' = now + d
    /\ ticks' = ticks + 1
    /\ UNCHANGED <<logVars, cryptoVars, calls, appVars, replayVars, serverMsgVars, handshakeVars, serverKxVars>>

(***************************************************************************)
(* Server: middleware validateReplayProtection and POST /api/messages.     *)
(***************************************************************************)
\* the middleware's timestamp tests
ServerFreshnessCheck(timestamp, t) ==
    IF t - timestamp > SERVER_MAX_AGE THEN "Message expired - too old"
    ELSE IF timestamp > t + SERVER_CLOCK_SKEW THEN "Invalid timestamp - future date"
    ELSE "OK"

\* Message.findOne({ nonce })
FindMessageByNonce(msgs, nonce) == {m \in msgs : m.nonce = nonce}

\* validateReplayProtection(req, res, next): "next" or the 400 error it answers.
\* A timestamp of 0 is falsy in JavaScript and counts as missing.
ValidateReplayProtection(body, msgs, t) ==
    IF body.timestamp = 0 THEN "Missing replay protection data"
    ELSE IF ServerFreshnessCheck(body.timestamp, t) # "OK"
    THEN ServerFreshnessCheck(body.timestamp, t)
    ELSE IF FindMessageByNonce(msgs, body.nonce) # {}
    THEN "Replay attack detected - duplicate nonce"
    ELSE "next"

\* POST /api/messages by senderId, run to completion: the middleware, the
\* required-field test of the route (a file message has no ciphertext and iv),
\* then Message.create.
PostMessage(senderId, body) ==
    LET verdict == ValidateReplayProtection(body, messages, now)
    IN  /\ IF verdict # "next"
           THEN /\ lastPost' = [op |-> "post", status |-> 400, error |-> verdict]
                /\ UNCHANGED messages
           ELSE IF body.type = "file"
           THEN /\ lastPost' = [op |-> "post", status |-> 400,
                                error |-> "Missing required fields"]
                /\ UNCHANGED messages
           ELSE /\ messages' = messages \cup
                        {[senderId |-> senderId, receiverId |-> body.receiverId,
                          nonce |-> body.nonce, sequenceNumber |-> body.sequenceNumber,
                          timestamp |-> body.timestamp, createdAt |-> now]}
                /\ lastPost' = [op |-> "post", status |-> 201, error |-> "none"]
        /\ UNCHANGED <<logVars, cryptoVars, calls, appVars, now, ticks, replayVars, handshakeVars, serverKxVars>>


(***************************************************************************)
(* Handshake: crypto/keyExchange.js.  Keys and signatures are symbolic.    *)
(* A base64 string is a sequence of tokens; ":" is a token of its own, so  *)
(* the template string `${publicKey}:${nonce}:${timestamp}` is the         *)
(* concatenation below and a relay may put ":" inside a field.             *)
(***************************************************************************)
Users == {"alice", "bob"}
\* device clocks run this far ahead of the reference clock
ClockDrifts == {0, KX_MAX_AGE + 1}
\* Date.now() on the device of user u
Clock(u) == now + drift[u]

\* generateECDHKeyPair and generateNonce return fresh values on every call
InitiatorKeys == <<"a1", "a2", "a3">>
InitiatorNonces == <<"na1", "na2", "na3">>
ResponderKeys == <<"b1", "b2", "b3">>
ResponderNonces == <<"nb1", "nb2", "nb3">>
\* the public half of each ephemeral private key ("m" is the relay's own)
PublicKeyOf == [a1 |-> "A1", a2 |-> "A2", a3 |-> "A3",
                b1 |-> "B1", b2 |-> "B2", b3 |-> "B3", m |-> "M"]
PublicKeys == {"A1", "A2", "A3", "B1", "B2", "B3", "M"}

\* exportPublicKey: the base64 of the public key
ExportPublicKey(privateKey) == <<PublicKeyOf[privateKey]>>

\* importPublicKey(data, 'ECDH') succeeds on the export of a public key only
IsECDHPublicKey(publicKeyData) ==
    Len(publicKeyData) = 1 /\ publicKeyData[1] \in PublicKeys

\* `${publicKeyBase64}:${nonce}:${timestamp}`
DataToSign(publicKeyBase64, nonce, timestamp) ==
    publicKeyBase64 \o <<":">> \o nonce \o <<":">> \o <<ToString(timestamp)>>

\* signData(data, privateKey): the identity private key of user u signs as u
SignData(data, privateKey) == [signer |-> privateKey, data |-> data]

\* variant: a verification that accepts every signature
VerifySignature_AcceptAll(data, signature, publicKey) == TRUE

\* verifySignature(data, signature, publicKey): publicKey is the identity key of a user
VerifySignature(data, signature, publicKey) ==
    signature.signer = publicKey /\ signature.data = data

\* crypto.subtle.deriveBits({name: 'ECDH', public}, privateKey, 256):
\* the same secret for (a, B) and (b, A)
DeriveBits(privateKey, publicKey) == {PublicKeyOf[privateKey], publicKey}

\* deriveSessionKey(sharedSecret, nonce1, nonce2): PBKDF2 of the secret with
\* salt = bytes(nonce1) ++ bytes(nonce2)
DeriveSessionKey(sharedSecret, nonce1, nonce2) ==
    [secret |-> sharedSecret, salt |-> nonce1 \o nonce2]

\* initiateKeyExchange(userPrivateKey) with the fresh key and nonce it generates
InitiateKeyExchange(userPrivateKey, ecdhPrivateKey, nonce, t) ==
    [ecdhPublicKey |-> ExportPublicKey(ecdhPrivateKey),
     signature |-> SignData(DataToSign(ExportPublicKey(ecdhPrivateKey), <<nonce>>, t),
                            userPrivateKey),
     nonce |-> <<nonce>>,
     timestamp |-> t]

\* variant: the timestamp test left out
KxExpired_Never(message, t) == FALSE

\* now - message.timestamp > maxAge
KxExpired(message, t) == t - message.timestamp > KX_MAX_AGE

\* the session key respondToKeyExchange derives
RespondSessionKey(initiatorMessage, ecdhPrivateKey, nonce) ==
    DeriveSessionKey(DeriveBits(ecdhPrivateKey, initiatorMessage.ecdhPublicKey[1]),
                     initiatorMessage.nonce, <<nonce>>)

\* respondToKeyExchange(initiatorMessage, initiatorUserPublicKey, responderPrivateKey)
\* run at time t with the fresh key and nonce it generates
RespondToKeyExchange(initiatorMessage, initiatorUserPublicKey, responderPrivateKey, ecdhPrivateKey, nonce, t) ==
    IF KxExpired(initiatorMessage, t)
    THEN [result |-> "Key exchange message expired"]
    ELSE IF ~VerifySignature(DataToSign(initiatorMessage.ecdhPublicKey,
                                        initiatorMessage.nonce,
                                        initiatorMessage.timestamp),
                             initiatorMessage.signature, initiatorUserPublicKey)
    THEN [result |-> "Invalid signature"]
    ELSE IF ~IsECDHPublicKey(initiatorMessage.ecdhPublicKey)
    THEN [result |-> "Failed to import public key"]
    ELSE [result |-> "ok",
          sessionKey |-> RespondSessionKey(initiatorMessage, ecdhPrivateKey, nonce),
          message |-> InitiateKeyExchange(responderPrivateKey, ecdhPrivateKey, nonce, t)]

\* variant: the salt built responder nonce first
CompleteSessionKey_SaltSwapped(responderMessage, initiatorECDHPrivateKey, initiatorNonce) ==
    DeriveSessionKey(DeriveBits(initiatorECDHPrivateKey, responderMessage.ecdhPublicKey[1]),
                     responderMessage.nonce, initiatorNonce)

\* the session key completeKeyExchange derives
CompleteSessionKey(responderMessage, initiatorECDHPrivateKey, initiatorNonce) ==
    DeriveSessionKey(DeriveBits(initiatorECDHPrivateKey, responderMessage.ecdhPublicKey[1]),
                     initiatorNonce, responderMessage.nonce)

\* completeKeyExchange(responderMessage, responderUserPublicKey,
\*                     initiatorECDHPrivateKey, initiatorNonce) run at time t
CompleteKeyExchange(responderMessage, responderUserPublicKey, initiatorECDHPrivateKey, initiatorNonce, t) ==
    IF KxExpired(responderMessage, t)
    THEN [result |-> "Key exchange message expired"]
    ELSE IF ~VerifySignature(DataToSign(responderMessage.ecdhPublicKey,
                                        responderMessage.nonce,
                                        responderMessage.timestamp),
                             responderMessage.signature, responderUserPublicKey)
    THEN [result |-> "Invalid signature"]
    ELSE IF ~IsECDHPublicKey(responderMessage.ecdhPublicKey)
    THEN [result |-> "Failed to import public key"]
    ELSE [result |-> "ok",
          sessionKey |-> CompleteSessionKey(responderMessage, initiatorECDHPrivateKey,
                                            initiatorNonce)]

\* What a relay can hand to a party in place of a signed message m: m itself,
\* or m with signed fields changed (another key, another nonce, a refreshed or
\* shifted timestamp, a ":" moved between fields), with the original signature
\* or with a signature of the relay's own.
Tamperings(m, t) ==
    {[m EXCEPT !.ecdhPublicKey = <<"M">>],
     [m EXCEPT !.nonce = <<"nM">>],
     [m EXCEPT !.timestamp = t],
     [m EXCEPT !.timestamp = m.timestamp + 1],
     [m EXCEPT !.ecdhPublicKey = m.ecdhPublicKey \o <<":">> \o m.nonce, !.nonce = <<>>],
     [m EXCEPT !.ecdhPublicKey = <<>>, !.nonce = m.ecdhPublicKey \o <<":">> \o m.nonce],
     [m EXCEPT !.ecdhPublicKey = <<"M">>,
               !.signature = SignData(DataToSign(<<"M">>, m.nonce, m.timestamp), "mallory")]}
Deliverable(t) == UNION {{w.msg} \cup Tamperings(w.msg, t) : w \in wire}

\* the signed fields of a message
SignedFields(m) == <<m.ecdhPublicKey, m.nonce, m.timestamp>>
\* m is, field for field, a message that user u signed
GenuineFrom(m, u) == \E w \in wire : w.from = u /\ w.msg = m

\* what is remembered of a respond / complete call
CallRecord(result, m, peer, t) ==
    [op |-> "call",
     result |-> result,
     expired |-> t - m.timestamp > 300000,
     future |-> m.timestamp > t + KX_CLOCK_SKEW,
     genuine |-> GenuineFrom(m, peer)]

\* handleInitiateKeyExchange: alice starts a handshake with bob
Initiate ==
    /\ initCount < MaxInit
    /\ LET e == InitiatorKeys[initCount + 1]
           n == InitiatorNonces[initCount + 1]
           m == InitiateKeyExchange("alice", e, n, Clock("alice"))
       IN  /\ wire' = wire \cup {[from |-> "alice", msg |-> m]}
           /\ kxPending' = kxPending \cup {[ecdhPrivateKey |-> e, nonce |-> <<n>>]}
    /\ initCount' = initCount + 1
    /\ UNCHANGED <<logVars, cryptoVars, calls, appVars, now, ticks, replayVars, serverMsgVars, drift, sessA, sessB, respCount, lastKx, serverKxVars>>

\* handleRespondToExchange: bob runs respondToKeyExchange on what the relay hands him
Respond(m) ==
    /\ respCount < MaxResp
    /\ LET e == ResponderKeys[respCount + 1]
           n == ResponderNonces[respCount + 1]
           out == RespondToKeyExchange(m, "alice", "bob", e, n, Clock("bob"))
       IN  /\ lastKx' = [lastKx EXCEPT !.respond = CallRecord(out.result, m, "alice", Clock("bob"))]
           /\ IF out.result = "ok"
              THEN /\ sessB' = sessB \cup {[key |-> out.sessionKey, msg |-> m,
                                            ecdhPrivateKey |-> e, nonce |-> <<n>>,
                                            at |-> Clock("bob")]}
                   /\ wire' = wire \cup {[from |-> "bob", msg |-> out.message]}
                   /\ respCount' = respCount + 1
              ELSE UNCHANGED <<sessB, wire, respCount>>
    /\ UNCHANGED <<logVars, cryptoVars, calls, appVars, now, ticks, replayVars, serverMsgVars, drift, kxPending, sessA, initCount, serverKxVars>>

\* keyExchangeHandler / checkConfirmation: alice runs completeKeyExchange with a
\* pending initiation on what the relay hands her
Complete(p, m) ==
    /\ p \in kxPending
    /\ LET out == CompleteKeyExchange(m, "bob", p.ecdhPrivateKey, p.nonce, Clock("alice"))
       IN  /\ lastKx' = [lastKx EXCEPT !.complete = CallRecord(out.result, m, "bob", Clock("alice"))]
           /\ IF out.result = "ok"
              THEN /\ sessA' = sessA \cup {[key |-> out.sessionKey, msg |-> m, pending |-> p,
                                            at |-> Clock("alice")]}
                   /\ kxPending' = kxPending \ {p}
              ELSE UNCHANGED <<sessA, kxPending>>
    /\ UNCHANGED <<logVars, cryptoVars, calls, appVars, now, ticks, replayVars, serverMsgVars, drift, wire, sessB, initCount, respCount, serverKxVars>>


(***************************************************************************)
(* Server: the /api/keyexchange routes over the KeyExchange collection.    *)
(* A handler runs up to an await that touches the collection, is suspended *)
(* in a request slot, and resumes later; other requests run in between.    *)
(***************************************************************************)
Slots == {"r1", "r2"}
Idle == [route |-> "idle"]
\* an absent (undefined) group of message fields
NoBody == [ecdhPublicKey |-> "", signature |-> "", nonce |-> "", timestamp |-> 0]
\* the message fields a client posts to /initiate, one complete and one without nonce
InitiateBodies ==
    {[ecdhPublicKey |-> "A1", signature |-> "sigA1", nonce |-> "na1", timestamp |-> T0],
     [ecdhPublicKey |-> "A1", signature |-> "sigA1", nonce |-> "", timestamp |-> T0]}
\* the message fields a client posts to /respond
RespondBodies ==
    {[ecdhPublicKey |-> "B1", signature |-> "sigB1", nonce |-> "nb1", timestamp |-> T0],
     [ecdhPublicKey |-> "B1", signature |-> "", nonce |-> "nb1", timestamp |-> T0]}
Usernames == {"bob", "nobody"}

\* !ecdhPublicKey || !signature || !nonce || !timestamp
MissingFields(body) ==
    body.ecdhPublicKey = "" \/ body.signature = "" \/ body.nonce = "" \/ body.timestamp = 0

\* User.findOne({ username }): the registered users
FindUser(username) == {u \in Users : u = username}

\* status: { $in: ['INITIATED', 'RESPONDED'] }
IsPending(k) == k.status \in {"INITIATED", "RESPONDED"}

\* KeyExchange.deleteMany({ initiatorId, responderId, status: { $in: [...] } })
DeleteMany(docs, initiatorId, responderId) ==
    {k \in docs : ~(k.initiatorId = initiatorId /\ k.responderId = responderId /\ IsPending(k))}

\* KeyExchange.create({...}) with the schema defaults for expiresAt and createdAt
Create(docs, id, initiatorId, responderId, body, t) ==
    docs \cup {[id |-> id, initiatorId |-> initiatorId, responderId |-> responderId,
                status |-> "INITIATED", initiator |-> body, responder |-> NoBody,
                createdAt |-> t, expiresAt |-> t + KX_EXPIRES_IN, confirmedAt |-> 0]}

\* the /respond lookup without its responderId condition
FindForRespond_AnyUser(docs, keyExchangeId, userId, t) ==
    {k \in docs : k.id = keyExchangeId /\ k.status = "INITIATED" /\ k.expiresAt > t}

\* findOne({ _id, responderId, status: 'INITIATED', expiresAt: { $gt: new Date() } })
FindForRespond(docs, keyExchangeId, userId, t) ==
    {k \in docs : /\ k.id = keyExchangeId
                  /\ k.responderId = userId
                  /\ k.status = "INITIATED"
                  /\ k.expiresAt > t}

\* findOne({ _id, initiatorId, status: 'RESPONDED' })
FindForConfirm(docs, keyExchangeId, userId, t) ==
    {k \in docs : /\ k.id = keyExchangeId
                  /\ k.initiatorId = userId
                  /\ k.status = "RESPONDED"}

\* keyExchange.save() of /respond: writes the modified paths of the document
SaveResponse(docs, id, body) ==
    {IF k.id = id THEN [k EXCEPT !.responder = body, !.status = "RESPONDED"] ELSE k : k \in docs}

\* keyExchange.save() of /confirm: writes the modified paths of the document
SaveConfirmation(docs, id, confirmedAt) ==
    {IF k.id = id THEN [k EXCEPT !.status = "CONFIRMED", !.confirmedAt = confirmedAt] ELSE k
        : k \in docs}

\* number of /initiate requests suspended before their create
CreatesInFlight == Cardinality({s \in Slots : inflight[s].route = "initiate"})

Reply(route, userId, status, id) ==
    [route |-> route, userId |-> userId, status |-> status, id |-> id]

\* POST /initiate up to and including await KeyExchange.deleteMany
PostInitiate(slot, userId, responderUsername, body) ==
    /\ inflight[slot] = Idle
    /\ nextId + CreatesInFlight < MaxExchanges
    /\ IF MissingFields(body)
       THEN /\ lastRoute' = Reply("initiate", userId, 400, 0)
            /\ UNCHANGED <<keyExchanges, inflight>>
       ELSE IF FindUser(responderUsername) = {}
       THEN /\ lastRoute' = Reply("initiate", userId, 404, 0)
            /\ UNCHANGED <<keyExchanges, inflight>>
       ELSE /\ keyExchanges' = DeleteMany(keyExchanges, userId, responderUsername)
            /\ inflight' = [inflight EXCEPT ![slot] =
                               [route |-> "initiate", userId |-> userId,
                                responderId |-> responderUsername, body |-> body]]
            /\ UNCHANGED lastRoute
    /\ UNCHANGED <<logVars, cryptoVars, calls, appVars, now, ticks, replayVars, serverMsgVars, handshakeVars, nextId>>

\* POST /initiate from await KeyExchange.create to the 201 response
PostInitiateCreate(slot) ==
    /\ inflight[slot].route = "initiate"
    /\ LET r == inflight[slot]
       IN  /\ keyExchanges' = Create(keyExchanges, nextId + 1, r.userId, r.responderId,
                                     r.body, now)
           /\ lastRoute' = Reply("initiate", r.userId, 201, nextId + 1)
    /\ nextId' = nextId + 1
    /\ inflight' = [inflight EXCEPT ![slot] = Idle]
    /\ UNCHANGED <<logVars, cryptoVars, calls, appVars, now, ticks, replayVars, serverMsgVars, handshakeVars>>

\* POST /respond up to the document modified in memory, before await save
PostRespond(slot, userId, keyExchangeId, body) ==
    /\ inflight[slot] = Idle
    /\ IF keyExchangeId = 0 \/ MissingFields(body)
       THEN /\ lastRoute' = Reply("respond", userId, 400, keyExchangeId)
            /\ UNCHANGED inflight
       ELSE IF FindForRespond(keyExchanges, keyExchangeId, userId, now) = {}
       THEN /\ lastRoute' = Reply("respond", userId, 404, keyExchangeId)
            /\ UNCHANGED inflight
       ELSE /\ inflight' = [inflight EXCEPT ![slot] =
                               [route |-> "respond", userId |-> userId,
                                id |-> keyExchangeId, body |-> body]]
            /\ UNCHANGED lastRoute
    /\ UNCHANGED <<logVars, cryptoVars, calls, appVars, now, ticks, replayVars, serverMsgVars, handshakeVars, keyExchanges, nextId>>

\* POST /respond from await keyExchange.save() to the response; save() of a
\* document deleted meanwhile throws and the handler answers 500
PostRespondSave(slot) ==
    /\ inflight[slot].route = "respond"
    /\ LET r == inflight[slot]
       IN  IF \E k \in keyExchanges : k.id = r.id
           THEN /\ keyExchanges' = SaveResponse(keyExchanges, r.id, r.body)
                /\ lastRoute' = Reply("respond", r.userId, 200, r.id)
           ELSE /\ lastRoute' = Reply("respond", r.userId, 500, r.id)
                /\ UNCHANGED keyExchanges
    /\ inflight' = [inflight EXCEPT ![slot] = Idle]
    /\ UNCHANGED <<logVars, cryptoVars, calls, appVars, now, ticks, replayVars, serverMsgVars, handshakeVars, nextId>>

\* POST /confirm up to the document modified in memory, before await save
PostConfirm(slot, userId, keyExchangeId) ==
    /\ inflight[slot] = Idle
    /\ IF keyExchangeId = 0
       THEN /\ lastRoute' = Reply("confirm", userId, 400, keyExchangeId)
            /\ UNCHANGED inflight
       ELSE IF FindForConfirm(keyExchanges, keyExchangeId, userId, now) = {}
       THEN /\ lastRoute' = Reply("confirm", userId, 404, keyExchangeId)
            /\ UNCHANGED inflight
       ELSE /\ inflight' = [inflight EXCEPT ![slot] =
                               [route |-> "confirm", userId |-> userId,
                                id |-> keyExchangeId, confirmedAt |-> now]]
            /\ UNCHANGED lastRoute
    /\ UNCHANGED <<logVars, cryptoVars, calls, appVars, now, ticks, replayVars, serverMsgVars, handshakeVars, keyExchanges, nextId>>

\* POST /confirm from await keyExchange.save() to the response
PostConfirmSave(slot) ==
    /\ inflight[slot].route = "confirm"
    /\ LET r == inflight[slot]
       IN  IF \E k \in keyExchanges : k.id = r.id
           THEN /\ keyExchanges' = SaveConfirmation(keyExchanges, r.id, r.confirmedAt)
                /\ lastRoute' = Reply("confirm", r.userId, 200, r.id)
           ELSE /\ lastRoute' = Reply("confirm", r.userId, 500, r.id)
                /\ UNCHANGED keyExchanges
    /\ inflight' = [inflight EXCEPT ![slot] = Idle]
    /\ UNCHANGED <<logVars, cryptoVars, calls, appVars, now, ticks, replayVars, serverMsgVars, handshakeVars, nextId>>


(***************************************************************************)
(* ChatApp of the initiator (alice, with bob selected) over the server     *)
(* routes: handleInitiateKeyExchange and the checkConfirmation poll.       *)
(***************************************************************************)
\* who produced the signature string a request body carries
SignerOf == [sigA1 |-> "alice", sigB1 |-> "bob", forged |-> "mallory"]
SignatureString == [alice |-> "sigA1", bob |-> "sigB1", mallory |-> "forged"]

\* the request body api.initiateKeyExchange / api.respondToKeyExchange sends for message m
EncodeMessage(m) ==
    [ecdhPublicKey |-> m.ecdhPublicKey[1], signature |-> SignatureString[m.signature.signer],
     nonce |-> m.nonce[1], timestamp |-> m.timestamp]

\* responderMessage = { ecdhPublicKey, signature, nonce, timestamp } built from
\* response.responder: the signature string is a signature of its producer
\* over the fields as posted
DecodeMessage(body) ==
    [ecdhPublicKey |-> <<body.ecdhPublicKey>>,
     signature |-> SignData(DataToSign(<<body.ecdhPublicKey>>, <<body.nonce>>, body.timestamp),
                            SignerOf[body.signature]),
     nonce |-> <<body.nonce>>,
     timestamp |-> body.timestamp]

\* what bob, or anyone holding bob's login, posts to /respond: bob's signed
\* response or one whose signature is not bob's
AppRespondBodies ==
    {[ecdhPublicKey |-> "B1", signature |-> sig, nonce |-> "nb1", timestamp |-> now]
        : sig \in {"sigB1", "forged"}}

\* handleInitiateKeyExchange: initiateKeyExchange, POST /initiate (deleteMany
\* then create), then the ephemeral key is kept in sessionStorage
HandleInitiateKeyExchange ==
    /\ nextId < MaxExchanges
    /\ LET e == InitiatorKeys[nextId + 1]
           n == InitiatorNonces[nextId + 1]
           m == InitiateKeyExchange("alice", e, n, Clock("alice"))
       IN  /\ keyExchanges' = Create(DeleteMany(keyExchanges, "alice", "bob"), nextId + 1,
                                     "alice", "bob", EncodeMessage(m), now)
           /\ appPending' = appPending \cup
                 {[keyExchangeId |-> nextId + 1, nonce |-> m.nonce, responderId |-> "bob",
                   ecdhPrivateKey |-> e]}
    /\ nextId' = nextId + 1
    /\ lastRoute' = Reply("initiate", "alice", 201, nextId + 1)
    /\ UNCHANGED <<logVars, cryptoVars, calls, now, ticks, replayVars, serverMsgVars, handshakeVars, inflight,
                   appSessionKey, rejected, senderVars>>

\* checkConfirmation: POST /confirm for a pending initiation and, when the
\* server answers CONFIRMED, completeKeyExchange on the responder fields it returns
CheckConfirmation(p) ==
    /\ appSessionKey = {}
    /\ p \in appPending /\ p.responderId = "bob"
    /\ LET found == FindForConfirm(keyExchanges, p.keyExchangeId, "alice", now)
       IN  IF found = {}
           THEN /\ lastRoute' = Reply("confirm", "alice", 404, p.keyExchangeId)
                /\ UNCHANGED <<keyExchanges, appPending, appSessionKey, rejected>>
           ELSE LET k == CHOOSE x \in found : TRUE
                    out == CompleteKeyExchange(DecodeMessage(k.responder), "bob",
                                               p.ecdhPrivateKey, p.nonce, Clock("alice"))
                IN  /\ keyExchanges' = SaveConfirmation(keyExchanges, k.id, now)
                    /\ lastRoute' = Reply("confirm", "alice", 200, k.id)
                    /\ IF out.result = "ok"
                       THEN /\ appSessionKey' = {out.sessionKey}
                            /\ appPending' = appPending \ {p}
                            /\ UNCHANGED rejected
                       ELSE /\ rejected' = rejected \cup {k.id}
                            /\ UNCHANGED <<appPending, appSessionKey>>
    /\ UNCHANGED <<logVars, cryptoVars, calls, now, ticks, replayVars, serverMsgVars, handshakeVars, nextId, inflight,
                   senderVars>>


\* the orders in which a browser may list the keys of sessionStorage; the
\* order is the same on every call while the entries stay the same
KeyOrders == {"ascending", "descending"}

\* Object.keys(sessionStorage).find(k => k.startsWith('ecdhKeyPair_') &&
\*     JSON.parse(sessionStorage.getItem(k)).responderId === selectedUser._id):
\* the first matching entry in the browser's key order
PendingInitKey(pending, responderId, order) ==
    LET matching == {p \in pending : p.responderId = responderId}
    IN  CHOOSE p \in matching :
            \A q \in matching :
                IF order = "ascending" THEN p.keyExchangeId <= q.keyExchangeId
                ELSE p.keyExchangeId >= q.keyExchangeId

\* one turn of setInterval(checkConfirmation, 3000) with bob selected
PollConfirmation ==
    /\ \E p \in appPending : p.responderId = "bob"
    /\ CheckConfirmation(PendingInitKey(appPending, "bob", keyOrder))

(***************************************************************************)
(* validateMessageMetadata as the event loop runs it: a call is suspended  *)
(* at each await on IndexedDB and other calls run in between.              *)
(***************************************************************************)
\* a finished call
Done(c, reason) == [c EXCEPT !.pc = "done", !.reason = reason]

\* the call from its entry to the result of await hasSeenNonce
BeginValidate(conversationId, nonce, timestamp, sequenceNumber, isHistorical) ==
    /\ Cardinality(calls) < MaxCalls
    /\ LET fresh == IF isHistorical THEN "OK" ELSE FreshnessCheck(timestamp, now)
           nonceUsed == HasSeenNonce(nonceStore, nonce, conversationId)
           c == [id |-> Cardinality(calls) + 1, conversationId |-> conversationId,
                 nonce |-> nonce, sequenceNumber |-> sequenceNumber,
                 isHistorical |-> isHistorical, nonceUsed |-> nonceUsed,
                 expectedSequence |-> 0, pc |-> "getNextSequenceNumber", reason |-> ""]
       IN  calls' = calls \cup
              {IF fresh # "OK" THEN Done(c, fresh)
               ELSE IF NonceCheck(nonceUsed, isHistorical) # "OK"
               THEN Done(c, NonceCheck(nonceUsed, isHistorical))
               ELSE c}
    /\ UNCHANGED <<logVars, cryptoVars, now, ticks, replayVars, serverMsgVars, handshakeVars, serverKxVars, appVars>>

\* the call from the result of await getNextSequenceNumber to its next await
ResumeAfterGetNextSequenceNumber(c) ==
    /\ c \in calls /\ c.pc = "getNextSequenceNumber"
    /\ LET expectedSequence == GetNextSequenceNumber(sequenceStore, c.conversationId)
           d == [c EXCEPT !.expectedSequence = expectedSequence]
       IN  calls' = (calls \ {c}) \cup
              {IF c.isHistorical
               THEN IF ~c.nonceUsed THEN [d EXCEPT !.pc = "recordNonce"]
                    ELSE IF c.sequenceNumber >= expectedSequence
                    THEN [d EXCEPT !.pc = "updateSequenceNumber"]
                    ELSE Done(d, "VALID")
               ELSE IF SequenceCheck(c.sequenceNumber, expectedSequence) # "OK"
               THEN Done(d, "OLD_SEQUENCE")
               ELSE [d EXCEPT !.pc = "recordNonce"]}
    /\ UNCHANGED <<logVars, cryptoVars, now, ticks, replayVars, serverMsgVars, handshakeVars, serverKxVars, appVars>>

\* await recordNonce(metadata.nonce, conversationId)
ResumeRecordNonce(c) ==
    /\ c \in calls /\ c.pc = "recordNonce"
    /\ nonceStore' = RecordNonce(nonceStore, c.nonce, c.conversationId, now)
    /\ calls' = (calls \ {c}) \cup
          {IF c.isHistorical /\ ~(c.sequenceNumber >= c.expectedSequence)
           THEN Done(c, "VALID")
           ELSE [c EXCEPT !.pc = "updateSequenceNumber"]}
    /\ UNCHANGED <<logVars, cryptoVars, now, ticks, sequenceStore, last, lastAccepted, nonceWrites,
                   serverMsgVars, handshakeVars, serverKxVars, appVars>>

\* await updateSequenceNumber(conversationId, metadata.sequenceNumber), then return
ResumeUpdateSequenceNumber(c) ==
    /\ c \in calls /\ c.pc = "updateSequenceNumber"
    /\ sequenceStore' = UpdateSequenceNumber(sequenceStore, c.conversationId, c.sequenceNumber)
    /\ calls' = (calls \ {c}) \cup {Done(c, "VALID")}
    /\ UNCHANGED <<logVars, cryptoVars, now, ticks, nonceStore, last, lastAccepted, nonceWrites,
                   serverMsgVars, handshakeVars, serverKxVars, appVars>>


(***************************************************************************)
(* ChatApp as a sender: the sequenceNumber state and the sends using it.   *)
(***************************************************************************)
\* generateMessageMetadata(sequenceNumber).sequenceNumber
GenerateMessageMetadata(seqNo) == seqNo

TotalSends == Len(attached["u1"]) + Len(attached["u2"])

\* onClick={() => setSelectedUser(u)}
SelectUser(u) ==
    /\ selectedUser' = u
    /\ UNCHANGED <<logVars, cryptoVars, calls, now, ticks, replayVars, serverMsgVars, handshakeVars, serverKxVars,
                   appPending, appSessionKey, rejected, appSequenceNumber, attached>>

\* handleSendMessage: the metadata is built from the sequenceNumber state,
\* api.sendMessage succeeds or throws, and the state is incremented on success only
HandleSendMessage(ok) ==
    /\ selectedUser # "none"
    /\ TotalSends < MaxSends
    /\ attached' = [attached EXCEPT ![selectedUser] =
                       Append(@, GenerateMessageMetadata(appSequenceNumber))]
    /\ appSequenceNumber' = IF ok THEN appSequenceNumber + 1 ELSE appSequenceNumber
    /\ UNCHANGED <<logVars, cryptoVars, calls, now, ticks, replayVars, serverMsgVars, handshakeVars, serverKxVars,
                   appPending, appSessionKey, rejected, selectedUser>>

\* handleFileUpload: as handleSendMessage, for a file
HandleFileUpload(ok) ==
    /\ selectedUser # "none"
    /\ TotalSends < MaxSends
    /\ attached' = [attached EXCEPT ![selectedUser] =
                       Append(@, GenerateMessageMetadata(appSequenceNumber))]
    /\ appSequenceNumber' = IF ok THEN appSequenceNumber + 1 ELSE appSequenceNumber
    /\ UNCHANGED <<logVars, cryptoVars, calls, now, ticks, replayVars, serverMsgVars, handshakeVars, serverKxVars,
                   appPending, appSessionKey, rejected, selectedUser>>

\* the ChatApp component is mounted again (page reload): useState(null), useState(0)
Remount ==
    /\ selectedUser' = "none"
    /\ appSequenceNumber' = 0
    /\ UNCHANGED <<logVars, cryptoVars, calls, now, ticks, replayVars, serverMsgVars, handshakeVars, serverKxVars,
                   appPending, appSessionKey, rejected, attached>>


(***************************************************************************)
(* crypto/encryption.js: AES-256-GCM over text and files, symbolically.    *)
(* A string is a sequence of UTF-16 code units, of which the model knows   *)
(* two letters, the byte order mark U+FEFF, an unpaired surrogate and the  *)
(* replacement character U+FFFD.                                           *)
(***************************************************************************)
CodeUnits == {"a", "b", "FEFF", "D800", "FFFD"}
SessionKeys == {"k1", "k2"}
\* getRandomValues(new Uint8Array(12))
IVs == {"iv1", "iv2"}
DecryptError == "Failed to decrypt message - invalid key or tampered data"

\* all sequences over S of length 0..n
RECURSIVE SeqsUpTo(_, _)
SeqsUpTo(S, n) ==
    IF n = 0 THEN {<<>>}
    ELSE SeqsUpTo(S, n - 1) \cup {Append(q, x) : q \in SeqsUpTo(S, n - 1), x \in S}

\* new TextEncoder().encode(message): the UTF-8 bytes, one group per code
\* point; an unpaired surrogate is encoded as U+FFFD
TextEncode(message) ==
    [i \in 1..Len(message) |-> IF message[i] = "D800" THEN "FFFD" ELSE message[i]]

\* new TextDecoder().decode(bytes): a leading byte order mark is dropped
TextDecode(bytes) ==
    IF Len(bytes) > 0 /\ bytes[1] = "FEFF" THEN Tail(bytes) ELSE bytes

\* window.btoa over the bytes: the canonical base64 spelling
ArrayBufferToBase64(buffer) == [bytes |-> buffer, spelling |-> "canonical"]

\* window.atob: any spelling that decodes (canonical, or with ASCII
\* whitespace) yields the bytes; anything else throws
Base64Decodes(base64) == base64.spelling \in {"canonical", "whitespace"}
Base64ToArrayBuffer(base64) == base64.bytes

\* crypto.subtle.encrypt({name: 'AES-GCM', iv, tagLength: 128}, key, data):
\* ciphertext and tag, bound to key, iv and data
AesGcmEncrypt(key, iv, data) == [key |-> key, iv |-> iv, data |-> data, intact |-> TRUE]

\* crypto.subtle.decrypt succeeds on an unmodified ciphertext under the key
\* and iv it was made with, and throws OperationError otherwise
AesGcmOpens(key, iv, encrypted) ==
    encrypted.intact /\ encrypted.key = key /\ encrypted.iv = iv

\* encryptMessage(message, sessionKey) with the iv it draws
EncryptMessage(message, sessionKey, iv) ==
    [ciphertext |-> ArrayBufferToBase64(AesGcmEncrypt(sessionKey, iv, TextEncode(message))),
     iv |-> ArrayBufferToBase64(iv)]

\* decryptMessage(ciphertext, iv, sessionKey): the plaintext, or the one error
DecryptMessage(ciphertext, iv, sessionKey) ==
    IF ~Base64Decodes(ciphertext) \/ ~Base64Decodes(iv)
    THEN [ok |-> FALSE, error |-> DecryptError]
    ELSE IF ~AesGcmOpens(sessionKey, Base64ToArrayBuffer(iv), Base64ToArrayBuffer(ciphertext))
    THEN [ok |-> FALSE, error |-> DecryptError]
    ELSE [ok |-> TRUE, plaintext |-> TextDecode(Base64ToArrayBuffer(ciphertext).data)]

\* what can be done to an encrypted message in transit
CipherTampers == {"none", "ciphertext", "iv", "respell", "garble"}
TamperMessage(e, how) ==
    CASE how = "ciphertext" -> [e EXCEPT !.ciphertext.bytes.intact = FALSE]
      [] how = "iv" -> [e EXCEPT !.iv.bytes = "ivX"]
      [] how = "respell" -> [e EXCEPT !.ciphertext.spelling = "whitespace"]
      [] how = "garble" -> [e EXCEPT !.ciphertext.spelling = "invalid"]
      [] OTHER -> e

\* encryptMessage by the sender, the relay, decryptMessage by the receiver
EncryptThenDecrypt(message, sessionKey, iv, how, receiverKey) ==
    /\ cipherRun' = [op |-> "message", message |-> message, sameKey |-> sessionKey = receiverKey,
                     how |-> how,
                     result |-> DecryptMessage(
                         TamperMessage(EncryptMessage(message, sessionKey, iv), how).ciphertext,
                         TamperMessage(EncryptMessage(message, sessionKey, iv), how).iv,
                         receiverKey)]
    /\ UNCHANGED <<now, ticks, replayVars, serverMsgVars, handshakeVars, serverKxVars, appVars,
                   calls, fileRun, logVars>>


(***************************************************************************)
(* encryptFile / decryptFile: a file is a sequence of bytes, cut into      *)
(* chunks of CHUNK_SIZE bytes that are encrypted one by one.               *)
(***************************************************************************)
Bytes == {0, 1}
FileDecryptError == "Failed to decrypt file - invalid key or tampered data"
MaxChunks == (MaxFileLen + CHUNK_SIZE - 1) \div CHUNK_SIZE
\* the iv drawn for the chunk that gets index i: the draws all differ from
\* their neighbours, or (however unlikely) all come out the same
IvDraws ==
    {[i \in 0..(MaxChunks - 1) |-> IF i % 2 = 0 THEN "iv1" ELSE "iv2"],
     [i \in 0..(MaxChunks - 1) |-> "iv1"]}

Min(a, b) == IF a <= b THEN a ELSE b

\* fileData.slice(offset, end)
Slice(fileData, offset, end) == SubSeq(fileData, offset + 1, end)

\* one element of chunks: { data, iv, index }
EncryptChunk(chunk, sessionKey, iv, index) ==
    [data |-> ArrayBufferToBase64(AesGcmEncrypt(sessionKey, iv, chunk)),
     iv |-> ArrayBufferToBase64(iv),
     index |-> index]

RECURSIVE EncryptChunks_OneIv(_, _, _, _, _)
EncryptChunks_OneIv(fileData, sessionKey, ivOf, offset, chunks) ==
    IF ~(offset < Len(fileData)) THEN chunks
    ELSE EncryptChunks_OneIv(fileData, sessionKey, ivOf, offset + CHUNK_SIZE,
             Append(chunks,
                    EncryptChunk(Slice(fileData, offset, Min(offset + CHUNK_SIZE, Len(fileData))),
                                 sessionKey, ivOf[0], Len(chunks))))
\* for (let offset = 0; offset < fileData.byteLength; offset += CHUNK_SIZE)
RECURSIVE EncryptChunks(_, _, _, _, _)
EncryptChunks(fileData, sessionKey, ivOf, offset, chunks) ==
    IF ~(offset < Len(fileData)) THEN chunks
    ELSE EncryptChunks(fileData, sessionKey, ivOf, offset + CHUNK_SIZE,
             Append(chunks,
                    EncryptChunk(Slice(fileData, offset, Min(offset + CHUNK_SIZE, Len(fileData))),
                                 sessionKey, ivOf[Len(chunks)], Len(chunks))))

\* encryptFile(fileData, sessionKey) with the ivs it draws
EncryptFile(fileData, sessionKey, ivOf) ==
    IF Len(fileData) <= CHUNK_SIZE
    THEN [chunks |-> <<EncryptChunk(fileData, sessionKey, ivOf[0], 0)>>,
          totalChunks |-> 1,
          totalSize |-> Len(fileData)]
    ELSE [chunks |-> EncryptChunks(fileData, sessionKey, ivOf, 0, <<>>),
          totalChunks |-> Len(EncryptChunks(fileData, sessionKey, ivOf, 0, <<>>)),
          totalSize |-> Len(fileData)]

\* c goes after every element whose index is not larger (the sort is stable)
RECURSIVE InsertChunk(_, _)
InsertChunk(sorted, c) ==
    IF sorted = <<>> THEN <<c>>
    ELSE IF sorted[Len(sorted)].index - c.index <= 0 THEN Append(sorted, c)
    ELSE Append(InsertChunk(SubSeq(sorted, 1, Len(sorted) - 1), c), sorted[Len(sorted)])

RECURSIVE SortFrom(_, _, _)
SortFrom(encryptedChunks, i, sorted) ==
    IF i > Len(encryptedChunks) THEN sorted
    ELSE SortFrom(encryptedChunks, i + 1, InsertChunk(sorted, encryptedChunks[i]))

SortChunks_AsSupplied(encryptedChunks) == encryptedChunks
\* [...encryptedChunks].sort((a, b) => a.index - b.index)
SortChunks(encryptedChunks) == SortFrom(encryptedChunks, 1, <<>>)

\* does crypto.subtle.decrypt accept this chunk
ChunkOpens(chunk, sessionKey) ==
    /\ Base64Decodes(chunk.data)
    /\ Base64Decodes(chunk.iv)
    /\ AesGcmOpens(sessionKey, Base64ToArrayBuffer(chunk.iv), Base64ToArrayBuffer(chunk.data))

\* the loop over sortedChunks: the first chunk that does not open throws
\* out of the loop; otherwise the plaintexts are collected in that order
RECURSIVE DecryptChunks(_, _, _, _)
DecryptChunks(sortedChunks, sessionKey, i, decryptedChunks) ==
    IF i > Len(sortedChunks) THEN [ok |-> TRUE, decryptedChunks |-> decryptedChunks]
    ELSE IF ~ChunkOpens(sortedChunks[i], sessionKey) THEN [ok |-> FALSE]
    ELSE DecryptChunks(sortedChunks, sessionKey, i + 1,
             Append(decryptedChunks, Base64ToArrayBuffer(sortedChunks[i].data).data))

\* result.set(chunk, offset) for every decrypted chunk
RECURSIVE Combine(_)
Combine(decryptedChunks) ==
    IF decryptedChunks = <<>> THEN <<>>
    ELSE Head(decryptedChunks) \o Combine(Tail(decryptedChunks))

\* the chunks of the sequence that open, in order
RECURSIVE OpenedOf(_, _)
OpenedOf(sortedChunks, sessionKey) ==
    IF sortedChunks = <<>> THEN <<>>
    ELSE (IF ChunkOpens(Head(sortedChunks), sessionKey)
          THEN <<Base64ToArrayBuffer(Head(sortedChunks).data).data>> ELSE <<>>)
         \o OpenedOf(Tail(sortedChunks), sessionKey)

DecryptFile_SkipFailed(encryptedChunks, sessionKey) ==
    [ok |-> TRUE, bytes |-> Combine(OpenedOf(SortChunks(encryptedChunks), sessionKey))]
\* decryptFile(encryptedChunks, sessionKey): the bytes, or the one error
DecryptFile(encryptedChunks, sessionKey) ==
    IF DecryptChunks(SortChunks(encryptedChunks), sessionKey, 1, <<>>).ok
    THEN [ok |-> TRUE,
          bytes |-> Combine(DecryptChunks(SortChunks(encryptedChunks), sessionKey, 1, <<>>).decryptedChunks)]
    ELSE [ok |-> FALSE, error |-> FileDecryptError]

\* what can be done to one chunk in transit
ChunkTampers == {"data", "iv", "garble"}
TamperChunk(c, how) ==
    CASE how = "data" -> [c EXCEPT !.data.bytes.intact = FALSE]
      [] how = "iv" -> [c EXCEPT !.iv.bytes = "ivX"]
      [] how = "garble" -> [c EXCEPT !.data.spelling = "invalid"]
      [] OTHER -> c

\* the chunks as the receiver gets them: in the given order, the chunk with
\* index bad altered (bad = -1: none)
Supplied(chunks, order, bad, how) ==
    [i \in 1..Len(chunks) |->
        IF chunks[order[i]].index = bad THEN TamperChunk(chunks[order[i]], how)
        ELSE chunks[order[i]]]

\* the runs to be made: a file, the sender's key and iv draws, the order
\* in which the chunks reach the receiver, the chunk altered on the way
\* (bad = -1: none) and the receiver's key; the files have at most maxLen bytes
FileInputs(maxLen) ==
    UNION {UNION {UNION {UNION {
        {[op |-> "input", fileData |-> fileData, sessionKey |-> k, ivOf |-> ivOf, order |-> order,
          bad |-> 0 - 1, how |-> "none", receiverKey |-> k2]
           : order \in Permutations(1..EncryptFile(fileData, k, ivOf).totalChunks)}
        \cup
        {[op |-> "input", fileData |-> fileData, sessionKey |-> k, ivOf |-> ivOf, order |-> x[1],
          bad |-> x[2], how |-> x[3], receiverKey |-> k2]
           : x \in Permutations(1..EncryptFile(fileData, k, ivOf).totalChunks)
                   \X (0..(EncryptFile(fileData, k, ivOf).totalChunks - 1)) \X ChunkTampers}
        : k2 \in SessionKeys} : ivOf \in IvDraws} : k \in SessionKeys}
        : fileData \in SeqsUpTo(Bytes, maxLen)}

\* the sender runs encryptFile; the chunks travel
EncryptFileRun ==
    /\ fileRun.op = "input"
    /\ fileRun' = [op |-> "encrypted", fileData |-> fileRun.fileData,
                   receiverKey |-> fileRun.receiverKey,
                   sameKey |-> fileRun.sessionKey = fileRun.receiverKey,
                   order |-> fileRun.order, bad |-> fileRun.bad, how |-> fileRun.how,
                   encrypted |-> EncryptFile(fileRun.fileData, fileRun.sessionKey, fileRun.ivOf)]
    /\ UNCHANGED <<now, ticks, replayVars, serverMsgVars, handshakeVars, serverKxVars, appVars,
                   calls, cipherRun, logVars>>

\* the receiver runs decryptFile on what arrived
DecryptFileRun ==
    /\ fileRun.op = "encrypted"
    /\ fileRun' = [op |-> "file", fileData |-> fileRun.fileData,
                   totalChunks |-> fileRun.encrypted.totalChunks,
                   totalSize |-> fileRun.encrypted.totalSize,
                   indices |-> [i \in 1..Len(fileRun.encrypted.chunks) |->
                                   fileRun.encrypted.chunks[i].index],
                   sizes |-> [i \in 1..Len(fileRun.encrypted.chunks) |->
                                 Len(Base64ToArrayBuffer(fileRun.encrypted.chunks[i].data).data)],
                   order |-> fileRun.order, bad |-> fileRun.bad, how |-> fileRun.how,
                   sameKey |-> fileRun.sameKey,
                   result |-> DecryptFile(
                       Supplied(fileRun.encrypted.chunks, fileRun.order, fileRun.bad, fileRun.how),
                       fileRun.receiverKey)]
    /\ UNCHANGED <<now, ticks, replayVars, serverMsgVars, handshakeVars, serverKxVars, appVars,
                   calls, cipherRun, logVars>>

\* what a store that cannot forge a chunk ciphertext can do to the chunk list
\* of a file with n chunks: nothing, drop the chunk at a position, store the
\* chunk at a position a second time, or give it another index value
StoreEdits(n) ==
    {[kind |-> "none", at |-> 0, to |-> 0]}
        \cup {[kind |-> k, at |-> d, to |-> 0] : k \in {"drop", "duplicate"}, d \in 1..n}
        \cup {[kind |-> "reindex", at |-> d, to |-> j] : d \in 1..n, j \in 0..n}

\* msg.encryptedChunks as the store returns them after the edit
StoredChunks(chunks, edit) ==
    CASE edit.kind = "drop" ->
             SubSeq(chunks, 1, edit.at - 1) \o SubSeq(chunks, edit.at + 1, Len(chunks))
      [] edit.kind = "duplicate" -> Append(chunks, chunks[edit.at])
      [] edit.kind = "reindex" -> [chunks EXCEPT ![edit.at].index = edit.to]
      [] OTHER -> chunks

\* the uploads to be made: a file of at most maxLen bytes, the key and iv
\* draws of the sender, and what the store does to the chunk list
StoreInputs(maxLen) ==
    UNION {UNION {UNION {
        {[op |-> "upload", fileData |-> fileData, sessionKey |-> k, ivOf |-> ivOf,
          edit |-> edit]
           : edit \in StoreEdits(EncryptFile(fileData, k, ivOf).totalChunks)}
        : ivOf \in IvDraws} : k \in SessionKeys} : fileData \in SeqsUpTo(Bytes, maxLen)}

\* handleFileUpload: encryptFile, then the chunks are posted to the store
UploadFileRun ==
    /\ fileRun.op = "upload"
    /\ fileRun' = [op |-> "stored", fileData |-> fileRun.fileData,
                   sessionKey |-> fileRun.sessionKey, edit |-> fileRun.edit,
                   encrypted |-> EncryptFile(fileRun.fileData, fileRun.sessionKey,
                                             fileRun.ivOf)]
    /\ UNCHANGED <<now, ticks, replayVars, serverMsgVars, handshakeVars, serverKxVars, appVars,
                   calls, cipherRun, logVars>>

\* handleFileDownload: decryptFile(msg.encryptedChunks, sessionKey) on what
\* the store returns
DownloadFileRun ==
    /\ fileRun.op = "stored"
    /\ fileRun' = [op |-> "download", fileData |-> fileRun.fileData, edit |-> fileRun.edit,
                   result |-> DecryptFile(StoredChunks(fileRun.encrypted.chunks, fileRun.edit),
                                          fileRun.sessionKey)]
    /\ UNCHANGED <<now, ticks, replayVars, serverMsgVars, handshakeVars, serverKxVars, appVars,
                   calls, cipherRun, logVars>>

\* a file of n bytes
FileOfLength(n) == [i \in 1..n |-> 0]

\* the history entry of one AEAD encryption: the value getRandomValues
\* returned for it, the iv inside the AES-GCM output and the iv sent along
IvEntry(op, drawn, data, iv) ==
    [op |-> op, drawn |-> drawn, used |-> Base64ToArrayBuffer(data).iv,
     sent |-> Base64ToArrayBuffer(iv)]

\* encryptMessage(message, sessionKey) in handleSendMessage, with the iv it draws
EncryptMessageCall(message, sessionKey, iv) ==
    /\ Len(ivLog) < MaxIvLog
    /\ ivLog' = Append(ivLog,
                    IvEntry("message", iv, EncryptMessage(message, sessionKey, iv).ciphertext,
                            EncryptMessage(message, sessionKey, iv).iv))
    /\ UNCHANGED <<now, ticks, replayVars, serverMsgVars, handshakeVars, serverKxVars, appVars,
                   calls, cryptoVars, keyStorage, keyRun, shown, auxVars>>

\* encryptFile(fileData, sessionKey) in handleFileUpload, with the ivs it
\* draws: the draw made in the loop turn of chunk i is ivOf[i]
EncryptFileCall(fileData, sessionKey, ivOf) ==
    /\ Len(ivLog) < MaxIvLog
    /\ ivLog' = ivLog \o
            [i \in 1..Len(EncryptFile(fileData, sessionKey, ivOf).chunks) |->
                IvEntry("chunk", ivOf[i - 1],
                        EncryptFile(fileData, sessionKey, ivOf).chunks[i].data,
                        EncryptFile(fileData, sessionKey, ivOf).chunks[i].iv)]
    /\ UNCHANGED <<now, ticks, replayVars, serverMsgVars, handshakeVars, serverKxVars, appVars,
                   calls, cryptoVars, keyStorage, keyRun, shown, auxVars>>


(***************************************************************************)
(* crypto/keyManagement.js: the long-term private key wrapped under the    *)
(* password and kept in IndexedDB.                                         *)
(***************************************************************************)
\* request.result of store.get when no record has the key: undefined
None == [undefined |-> TRUE]
Passwords == {"pw1", "pw2"}
KeyTypes == {"ECDSA", "ECDH"}
RetrieveError == "Failed to retrieve private key - wrong password or key not found"

\* deriveKeyFromPassword(password, salt): PBKDF2, 100000 rounds of SHA-256
DeriveKeyFromPassword(password, salt) == [password |-> password, salt |-> salt]

\* crypto.subtle.exportKey('pkcs8', privateKey)
ExportPkcs8(privateKey) == [format |-> "pkcs8", key |-> privateKey]

\* crypto.subtle.importKey('pkcs8', decrypted, algorithm, true, usages)
\* accepts a PKCS#8 structure only
ImportsAsPkcs8(decrypted) == DOMAIN decrypted = {"format", "key"} /\ decrypted.format = "pkcs8"
ImportPkcs8(decrypted, keyType) == [key |-> decrypted.key, algorithm |-> keyType]

\* the record storePrivateKey puts under privateKey_<userId>
WrappedKey(privateKey, password, salt, iv) ==
    [encryptedKey |-> ArrayBufferToBase64(
                         AesGcmEncrypt(DeriveKeyFromPassword(password, salt), iv,
                                       ExportPkcs8(privateKey))),
     salt |-> ArrayBufferToBase64(salt),
     iv |-> ArrayBufferToBase64(iv)]

\* retrievePrivateKey(password, userId, keyType) on the result of
\* store.get(`privateKey_${userId}`), failing at the step that fails
RetrievePrivateKey_CauseInError(opened, data, password, keyType) ==
    IF ~opened THEN [ok |-> FALSE, error |-> "Failed to open database"]
    ELSE IF data = None THEN [ok |-> FALSE, error |-> "Private key not found in storage"]
    ELSE IF ~(Base64Decodes(data.encryptedKey) /\ Base64Decodes(data.salt) /\ Base64Decodes(data.iv))
    THEN [ok |-> FALSE, error |-> "InvalidCharacterError"]
    ELSE IF ~AesGcmOpens(DeriveKeyFromPassword(password, Base64ToArrayBuffer(data.salt)),
                         Base64ToArrayBuffer(data.iv), Base64ToArrayBuffer(data.encryptedKey))
    THEN [ok |-> FALSE, error |-> "OperationError"]
    ELSE IF ~ImportsAsPkcs8(Base64ToArrayBuffer(data.encryptedKey).data)
    THEN [ok |-> FALSE, error |-> "DataError"]
    ELSE [ok |-> TRUE,
          privateKey |-> ImportPkcs8(Base64ToArrayBuffer(data.encryptedKey).data, keyType)]
\* retrievePrivateKey(password, userId, keyType): every throw inside the
\* try block is replaced by the one error of the catch
RetrievePrivateKey(opened, data, password, keyType) ==
    IF ~opened THEN [ok |-> FALSE, error |-> RetrieveError]
    ELSE IF data = None THEN [ok |-> FALSE, error |-> RetrieveError]
    ELSE IF ~(Base64Decodes(data.encryptedKey) /\ Base64Decodes(data.salt) /\ Base64Decodes(data.iv))
    THEN [ok |-> FALSE, error |-> RetrieveError]
    ELSE IF ~AesGcmOpens(DeriveKeyFromPassword(password, Base64ToArrayBuffer(data.salt)),
                         Base64ToArrayBuffer(data.iv), Base64ToArrayBuffer(data.encryptedKey))
    THEN [ok |-> FALSE, error |-> RetrieveError]
    ELSE IF ~ImportsAsPkcs8(Base64ToArrayBuffer(data.encryptedKey).data)
    THEN [ok |-> FALSE, error |-> RetrieveError]
    ELSE [ok |-> TRUE,
          privateKey |-> ImportPkcs8(Base64ToArrayBuffer(data.encryptedKey).data, keyType)]

\* what can happen to the stored record between store and retrieve
KeyDamages == {"encryptedKey", "salt", "iv", "garbleKey", "garbleSalt", "garbleIv", "content"}
DamageKey(data, how) ==
    CASE how = "encryptedKey" -> [data EXCEPT !.encryptedKey.bytes.intact = FALSE]
      [] how = "salt" -> [data EXCEPT !.salt.bytes = "saltX"]
      [] how = "iv" -> [data EXCEPT !.iv.bytes = "ivX"]
      [] how = "garbleKey" -> [data EXCEPT !.encryptedKey.spelling = "invalid"]
      [] how = "garbleSalt" -> [data EXCEPT !.salt.spelling = "invalid"]
      [] how = "garbleIv" -> [data EXCEPT !.iv.spelling = "invalid"]
      [] how = "content" -> [data EXCEPT !.encryptedKey.bytes.data = [format |-> "raw"]]
      [] OTHER -> data

\* storePrivateKey(privateKey, password, userId) with the salt and iv it draws
StorePrivateKey(privateKey, password, userId, salt, iv) ==
    /\ keyStorage' = [keyStorage EXCEPT ![userId] =
                         [data |-> WrappedKey(privateKey, password, salt, iv),
                          password |-> password, key |-> privateKey, damaged |-> FALSE]]
    /\ UNCHANGED <<now, ticks, replayVars, serverMsgVars, handshakeVars, serverKxVars, appVars,
                   calls, cryptoVars, ivLog, keyRun, shown, auxVars>>

\* the stored record is altered behind the application's back
DamageStoredKey(userId, how) ==
    /\ keyStorage[userId] # None
    /\ ~keyStorage[userId].damaged
    /\ keyStorage' = [keyStorage EXCEPT ![userId] =
                         [@ EXCEPT !.data = DamageKey(@, how), !.damaged = TRUE]]
    /\ UNCHANGED <<now, ticks, replayVars, serverMsgVars, handshakeVars, serverKxVars, appVars,
                   calls, cryptoVars, ivLog, keyRun, shown, auxVars>>

\* retrievePrivateKey(password, userId, keyType); opened: initKeyStorage resolved
RetrievePrivateKeyCall(opened, password, userId, keyType) ==
    /\ keyRun' = [op |-> "retrieve", opened |-> opened, stored |-> keyStorage[userId],
                  password |-> password, keyType |-> keyType,
                  result |-> RetrievePrivateKey(
                                 opened,
                                 IF keyStorage[userId] = None THEN None ELSE keyStorage[userId].data,
                                 password, keyType)]
    /\ UNCHANGED <<now, ticks, replayVars, serverMsgVars, handshakeVars, serverKxVars, appVars,
                   calls, cryptoVars, ivLog, keyStorage, shown, auxVars>>


(***************************************************************************)
(* ChatApp as a reader: every message of the loaded conversation, sent or  *)
(* received, is validated when its bubble is rendered.                     *)
(***************************************************************************)
\* the logged-in user
Me == "me"

\* the conversationId handed to validateMessageMetadata: selectedUser._id,
\* whoever sent the message
ConversationIdOf(msg, selected) == selected

\* the messages api.getConversation(selectedUser._id) can return: sent by
\* the user or by the selected contact
LoadedMessage(senderId, selected, encrypted, nonce, timestamp, sequenceNumber) ==
    [senderId |-> senderId, receiverId |-> IF senderId = Me THEN selected ELSE Me,
     ciphertext |-> encrypted.ciphertext, iv |-> encrypted.iv,
     nonce |-> nonce, timestamp |-> timestamp, sequenceNumber |-> sequenceNumber]

\* how often msg's ciphertext has been shown in live mode so far
LiveShown(msg) ==
    IF \E m \in shown : m.senderId = msg.senderId /\ m.ciphertext = msg.ciphertext
    THEN (CHOOSE m \in shown : m.senderId = msg.senderId /\ m.ciphertext = msg.ciphertext).live
    ELSE 0

\* decryptAndDisplayMessage(msg): the metadata is validated and, when it is
\* valid, the ciphertext decrypted; the component exists with
\* { isHistorical: true } and without it
DecryptAndDisplayMessage(msg, isHistorical) ==
    /\ appSessionKey # {}
    /\ selectedUser # "none"
    /\ ValidateCall(ConversationIdOf(msg, selectedUser), msg.nonce, msg.timestamp,
                    msg.sequenceNumber, isHistorical)
    /\ shown' =
          IF /\ last'.reason = "VALID"
             /\ DecryptMessage(msg.ciphertext, msg.iv, CHOOSE k \in appSessionKey : TRUE).ok
          THEN {m \in shown : ~(m.senderId = msg.senderId /\ m.ciphertext = msg.ciphertext)}
                  \cup {[senderId |-> msg.senderId, ciphertext |-> msg.ciphertext,
                         live |-> IF isHistorical THEN LiveShown(msg)
                                  ELSE Min(LiveShown(msg) + 1, 2)]}
          ELSE shown
    /\ UNCHANGED <<nonceWrites, auxVars>>

(***************************************************************************)
(* POST /api/messages as the event loop runs it: a request is suspended at *)
(* await Message.create and other requests run in between.  The Message    *)
(* collection has a unique index on nonce.                                 *)
(***************************************************************************)
\* variant: the collection has no unique index on nonce
InsertMessage_NoUniqueIndex(msgs, doc) == [ok |-> TRUE, messages |-> msgs \cup {doc}]

\* the insert of Message.create under messageSchema.nonce unique: true; a
\* second document with a stored nonce is refused with a duplicate key error
InsertMessage(msgs, doc) ==
    IF FindMessageByNonce(msgs, doc.nonce) # {}
    THEN [ok |-> FALSE, messages |-> msgs]
    ELSE [ok |-> TRUE, messages |-> msgs \cup {doc}]

\* a request slot after the response was sent
Answered(nonce, status) == [route |-> "answered", nonce |-> nonce, status |-> status]

\* POST /api/messages from the middleware to the call of Message.create: the
\* middleware's tests with await Message.findOne({ nonce }), next(), and the
\* required-field test of the route
PostMessageFind(slot, senderId, body) ==
    /\ msgInflight[slot].route # "create"
    /\ Cardinality(messages) < MaxPosts
    /\ LET verdict == ValidateReplayProtection(body, messages, now)
       IN  IF verdict # "next"
           THEN /\ lastPost' = [op |-> "post", status |-> 400, error |-> verdict]
                /\ msgInflight' = [msgInflight EXCEPT ![slot] = Answered(body.nonce, 400)]
           ELSE IF body.type = "file"
           THEN /\ lastPost' = [op |-> "post", status |-> 400,
                                error |-> "Missing required fields"]
                /\ msgInflight' = [msgInflight EXCEPT ![slot] = Answered(body.nonce, 400)]
           ELSE /\ msgInflight' = [msgInflight EXCEPT ![slot] =
                                      [route |-> "create", senderId |-> senderId,
                                       body |-> body]]
                /\ UNCHANGED lastPost
    /\ UNCHANGED <<messages, now, ticks, replayVars, handshakeVars, serverKxVars, appVars,
                   calls, cryptoVars, ivLog, keyStorage, keyRun, shown, demo, accepted, keyOrder>>

\* POST /api/messages from the insert of Message.create to the response: 201,
\* or 500 from the catch when the insert throws
PostMessageCreate(slot) ==
    /\ msgInflight[slot].route = "create"
    /\ LET r == msgInflight[slot]
           out == InsertMessage(messages,
                      [senderId |-> r.senderId, receiverId |-> r.body.receiverId,
                       nonce |-> r.body.nonce, sequenceNumber |-> r.body.sequenceNumber,
                       timestamp |-> r.body.timestamp, createdAt |-> now,
                       id |-> Cardinality(messages) + 1])
       IN  /\ messages' = out.messages
           /\ lastPost' = IF out.ok
                          THEN [op |-> "post", status |-> 201, error |-> "none"]
                          ELSE [op |-> "post", status |-> 500,
                                error |-> "Failed to send message"]
           /\ msgInflight' = [msgInflight EXCEPT ![slot] =
                                 Answered(r.body.nonce, IF out.ok THEN 201 ELSE 500)]
    /\ UNCHANGED <<now, ticks, replayVars, handshakeVars, serverKxVars, appVars,
                   calls, cryptoVars, ivLog, keyStorage, keyRun, shown, demo, accepted, keyOrder>>

(***************************************************************************)
(* attacks/replay-demo/replay-attack.js: the reference validator of the    *)
(* demo script, with its two module-level collections.                     *)
(***************************************************************************)
\* conversationSequence = { 'alice123:bob456': 42 }
DEMO_SEED == 42
\* the senderId and receiverId of the messages of each conversation
DemoPair == [u1 |-> <<"alice123", "bob456">>, u2 |-> <<"bob456", "alice123">>]
\* the sequence numbers offered to both validators
DemoSeqs == Seqs \cup {DEMO_SEED}

\* the message object the demo validator is given
DemoMessage(conversationId, nonce, timestamp, sequenceNumber) ==
    [senderId |-> DemoPair[conversationId][1], receiverId |-> DemoPair[conversationId][2],
     nonce |-> nonce, timestamp |-> timestamp, sequenceNumber |-> sequenceNumber]

\* nonceKey = `${msg.senderId}:${msg.receiverId}:${msg.nonce}`
DemoNonceKey(msg) == <<msg.senderId, msg.receiverId, msg.nonce>>
\* conversationKey = `${msg.senderId}:${msg.receiverId}`
DemoConversationKey(msg) == <<msg.senderId, msg.receiverId>>

\* conversationSequence[conversationKey] || 0
DemoExpectedSeq(conversationSequence, conversationKey) ==
    IF \E r \in conversationSequence : r.id = conversationKey
    THEN (CHOOSE r \in conversationSequence : r.id = conversationKey).nextSequence
    ELSE 0

\* variant: the sequence number is tested before the nonce
DemoValidateReplayProtection_SequenceFirst(msg, seenNonces, conversationSequence, t) ==
    LET expectedSeq == DemoExpectedSeq(conversationSequence, DemoConversationKey(msg))
        unchanged == [seenNonces |-> seenNonces, conversationSequence |-> conversationSequence]
    IN  IF t - msg.timestamp > MAX_AGE THEN [reason |-> "MESSAGE_EXPIRED"] @@ unchanged
        ELSE IF msg.timestamp > t + CLOCK_SKEW THEN [reason |-> "FUTURE_TIMESTAMP"] @@ unchanged
        ELSE IF msg.sequenceNumber < expectedSeq THEN [reason |-> "OLD_SEQUENCE"] @@ unchanged
        ELSE IF DemoNonceKey(msg) \in seenNonces THEN [reason |-> "DUPLICATE_NONCE"] @@ unchanged
        ELSE [reason |-> "VALID",
              seenNonces |-> seenNonces \cup {DemoNonceKey(msg)},
              conversationSequence |->
                  {r \in conversationSequence : r.id # DemoConversationKey(msg)}
                      \cup {[id |-> DemoConversationKey(msg),
                             nextSequence |-> msg.sequenceNumber + 1]}]

\* validateReplayProtection(msg) of the demo script run at time t: the returned
\* reason ("VALID" for {valid: true}) and the two collections it leaves behind
DemoValidateReplayProtection(msg, seenNonces, conversationSequence, t) ==
    LET expectedSeq == DemoExpectedSeq(conversationSequence, DemoConversationKey(msg))
        unchanged == [seenNonces |-> seenNonces, conversationSequence |-> conversationSequence]
    IN  IF t - msg.timestamp > MAX_AGE THEN [reason |-> "MESSAGE_EXPIRED"] @@ unchanged
        ELSE IF msg.timestamp > t + CLOCK_SKEW THEN [reason |-> "FUTURE_TIMESTAMP"] @@ unchanged
        ELSE IF DemoNonceKey(msg) \in seenNonces THEN [reason |-> "DUPLICATE_NONCE"] @@ unchanged
        ELSE IF msg.sequenceNumber < expectedSeq THEN [reason |-> "OLD_SEQUENCE"] @@ unchanged
        ELSE [reason |-> "VALID",
              seenNonces |-> seenNonces \cup {DemoNonceKey(msg)},
              conversationSequence |->
                  {r \in conversationSequence : r.id # DemoConversationKey(msg)}
                      \cup {[id |-> DemoConversationKey(msg),
                             nextSequence |-> msg.sequenceNumber + 1]}]

\* the same message given to the client guard in live mode and to the demo validator
ValidateBoth(conversationId, nonce, timestamp, sequenceNumber) ==
    /\ ValidateCall(conversationId, nonce, timestamp, sequenceNumber, FALSE)
    /\ LET out == DemoValidateReplayProtection(
                      DemoMessage(conversationId, nonce, timestamp, sequenceNumber),
                      demo.seenNonces, demo.conversationSequence, now)
       IN  demo' = [seenNonces |-> out.seenNonces,
                    conversationSequence |-> out.conversationSequence,
                    reason |-> out.reason]
    /\ UNCHANGED <<nonceWrites, shown, accepted, msgInflight, keyOrder>>

InitBase ==
    /\ now = T0
    /\ ticks = 0
    /\ nonceStore = {}
    /\ sequenceStore = {}
    /\ last = NoCall
    /\ lastAccepted = [c \in Convs |-> {}]
    /\ nonceWrites = [written |-> {}, rewritten |-> {}]
    /\ messages = {}
    /\ lastPost = NoCall
    /\ wire = {}
    /\ kxPending = {}
    /\ sessA = {}
    /\ sessB = {}
    /\ initCount = 0
    /\ respCount = 0
    /\ lastKx = [respond |-> NoCall, complete |-> NoCall]
    /\ keyExchanges = {}
    /\ nextId = 0
    /\ inflight = [s \in Slots |-> Idle]
    /\ lastRoute = NoCall
    /\ appPending = {}
    /\ rejected = {}
    /\ calls = {}
    /\ cipherRun = NoCall
    /\ ivLog = <<>>
    /\ keyStorage = [u \in Users |-> None]
    /\ keyRun = NoCall
    /\ shown = {}
    /\ demo = [seenNonces |-> {},
               conversationSequence |-> {[id |-> <<"alice123", "bob456">>,
                                          nextSequence |-> DEMO_SEED]},
               reason |-> "none"]
    /\ accepted = {}
    /\ msgInflight = [s \in Slots |-> Idle]
    /\ appSequenceNumber = 0
    /\ attached = [c \in Convs |-> <<>>]

\* the ChatApp as mounted: no contact selected, no session key
InitChatApp == selectedUser = "none" /\ appSessionKey = {} /\ keyOrder = "ascending"

\* every device clock agrees with the reference clock
Init == InitBase /\ InitChatApp /\ drift = [u \in Users |-> 0] /\ fileRun = NoCall

\* the device clocks of the two parties may disagree
InitHandshake == InitBase /\ InitChatApp /\ drift \in [Users -> ClockDrifts] /\ fileRun = NoCall

\* The replay guard of one client for one conversation.
NextReplay ==
    \/ \E d \in TickSteps : Tick(d)
    \/ \E n \in Nonces, o \in TsOffsets, s \in Seqs, h \in BOOLEAN :
          Validate("u1", n, now + o, s, h)
    \/ ClearReplayProtectionData("u1")

SpecReplay == Init /\ [][NextReplay]_vars

\* The two freshness windows: the client guard in live mode and the server route.
NextFresh ==
    \/ \E d \in TickSteps : Tick(d)
    \/ \E o \in TsOffsets : Validate("u1", "n1", now + o, 0, FALSE)
    \/ \E o \in TsOffsets, k \in {"text", "file"} :
          PostMessage("u1", [receiverId |-> "u2", type |-> k, nonce |-> "n1",
                             sequenceNumber |-> 0, timestamp |-> now + o])

SpecFresh == Init /\ [][NextFresh]_vars

\* the clock advances by this much between handshake steps
KxTickSteps == {KX_MAX_AGE}

\* The handshake between alice (initiator) and bob (responder) over a relay
\* that may replay and rewrite the messages.
NextHandshake ==
    \/ \E d \in KxTickSteps : Tick(d)
    \/ Initiate
    \/ \E m \in Deliverable(Clock("bob")) : Respond(m)
    \/ \E p \in kxPending, m \in Deliverable(Clock("alice")) : Complete(p, m)

SpecHandshake == InitHandshake /\ [][NextHandshake]_vars

\* the clock advances by this much between server steps
ServerTickSteps == {KX_EXPIRES_IN}

\* The key exchange routes of the server under concurrent requests.
NextServerKx ==
    \/ \E d \in ServerTickSteps : Tick(d)
    \/ \E slot \in Slots, r \in Usernames, body \in InitiateBodies :
          PostInitiate(slot, "alice", r, body)
    \/ \E slot \in Slots : PostInitiateCreate(slot)
    \/ \E slot \in Slots, u \in Users, id \in 0..MaxExchanges, body \in RespondBodies :
          PostRespond(slot, u, id, body)
    \/ \E slot \in Slots : PostRespondSave(slot)
    \/ \E slot \in Slots, u \in Users, id \in 0..MaxExchanges : PostConfirm(slot, u, id)
    \/ \E slot \in Slots : PostConfirmSave(slot)

SpecServerKx == Init /\ [][NextServerKx]_vars

\* The initiator's ChatApp and the responder's requests over the server routes.
NextConfirm ==
    \/ \E d \in KxTickSteps : Tick(d)
    \/ HandleInitiateKeyExchange
    \/ \E slot \in Slots, id \in 1..MaxExchanges, body \in AppRespondBodies :
          PostRespond(slot, "bob", id, body)
    \/ \E slot \in Slots : PostRespondSave(slot)
    \/ \E p \in appPending : CheckConfirmation(p)

SpecConfirm == Init /\ [][NextConfirm]_vars

\* the timestamps of the validations of SpecHistory, relative to now
HistoryOffsets == {0 - (MAX_AGE + 1), 0}

\* Live and historical validations of conversation u1 with the history of
\* nonce writes.
NextHistory ==
    \/ \E d \in TickSteps : Tick(d)
    \/ \E n \in Nonces, o \in HistoryOffsets, s \in Seqs, h \in BOOLEAN :
          ValidateTracked("u1", n, now + o, s, h)

SpecHistory == Init /\ [][NextHistory]_vars

\* the timestamps of the validations of SpecEvict, relative to now
EvictOffsets == {0, CLOCK_SKEW}
\* the clock advances past the retention time of a nonce record
EvictTickSteps == {NONCE_TTL + 1}

\* Live and historical validations of conversation u1 over more than the
\* retention time of a nonce record, with the accepted envelopes kept.
NextEvict ==
    \/ \E d \in EvictTickSteps : Tick(d)
    \/ \E n \in Nonces, o \in EvictOffsets, s \in Seqs, h \in BOOLEAN :
          ValidateLogged("u1", n, now + o, s, h)

SpecEvict == Init /\ [][NextEvict]_vars

\* Overlapping validations of conversation u1, as when several message
\* bubbles decrypt in one render.
NextConcurrent ==
    \/ \E n \in Nonces, s \in Seqs, h \in BOOLEAN : BeginValidate("u1", n, now, s, h)
    \/ \E c \in calls : ResumeAfterGetNextSequenceNumber(c)
    \/ \E c \in calls : ResumeRecordNonce(c)
    \/ \E c \in calls : ResumeUpdateSequenceNumber(c)

SpecConcurrent == Init /\ [][NextConcurrent]_vars

\* POST /api/messages requests of u1 to u2 with any nonce and sequence number.
NextServerMsg ==
    \/ \E d \in TickSteps : Tick(d)
    \/ \E n \in Nonces, s \in Seqs, o \in TsOffsets :
          PostMessage("u1", [receiverId |-> "u2", type |-> "text", nonce |-> n,
                             sequenceNumber |-> s, timestamp |-> now + o])

SpecServerMsg == Init /\ [][NextServerMsg]_vars

\* The ChatApp sending messages and files, switching contact and remounting.
NextSender ==
    \/ \E u \in Convs : SelectUser(u)
    \/ \E ok \in BOOLEAN : HandleSendMessage(ok)
    \/ \E ok \in BOOLEAN : HandleFileUpload(ok)
    \/ Remount

SpecSender == Init /\ [][NextSender]_vars

\* Messages encrypted, relayed and decrypted.
NextCipher ==
    \E message \in SeqsUpTo(CodeUnits, MaxMsgLen), k \in SessionKeys, iv \in IVs,
       how \in CipherTampers, k2 \in SessionKeys :
        EncryptThenDecrypt(message, k, iv, how, k2)

SpecCipher == Init /\ [][NextCipher]_vars

\* The ChatApp with contact u1 selected and a session key, rendering the
\* messages of the conversation.
InitDisplay ==
    /\ InitBase /\ drift = [u \in Users |-> 0] /\ fileRun = NoCall
    /\ selectedUser = "u1"
    /\ appSessionKey = {"k1"}
    /\ keyOrder = "ascending"

NextDisplay ==
    \/ \E d \in TickSteps : Tick(d)
    \/ \E senderId \in {Me, "u1"}, n \in Nonces, o \in HistoryOffsets, s \in Seqs, h \in BOOLEAN :
          DecryptAndDisplayMessage(
              LoadedMessage(senderId, selectedUser, EncryptMessage(<<"a">>, "k1", "iv1"),
                            n, now + o, s), h)

SpecDisplay == InitDisplay /\ [][NextDisplay]_vars

\* The replay guard of one client for two conversations.
NextConvs ==
    \/ \E d \in TickSteps : Tick(d)
    \/ \E c \in Convs, s \in Seqs, h \in BOOLEAN :
          Validate(c, "n1", now, s, h)

SpecConvs == Init /\ [][NextConvs]_vars

\* the timestamps of the requests of SpecServerRace, relative to now
RaceOffsets == {0 - (SERVER_MAX_AGE + 1), 0}

\* Overlapping POST /api/messages requests of u1 to u2.
NextServerRace ==
    \/ \E slot \in Slots, n \in Nonces, o \in RaceOffsets, k \in {"text", "file"} :
          PostMessageFind(slot, "u1", [receiverId |-> "u2", type |-> k, nonce |-> n,
                                       sequenceNumber |-> 0, timestamp |-> now + o])
    \/ \E slot \in Slots : PostMessageCreate(slot)

SpecServerRace == Init /\ [][NextServerRace]_vars

\* what bob's client posts to /respond
HonestRespondBodies ==
    {[ecdhPublicKey |-> "B1", signature |-> "sigB1", nonce |-> "nb1", timestamp |-> now]}

\* the ChatApp of alice in a browser with either key order
InitPoll ==
    /\ InitBase /\ drift = [u \in Users |-> 0] /\ fileRun = NoCall
    /\ selectedUser = "none" /\ appSessionKey = {}
    /\ keyOrder \in KeyOrders

\* The initiator's ChatApp with the confirmation poll running and no socket
\* notification, and bob's client answering over the server routes.
NextPoll ==
    \/ HandleInitiateKeyExchange
    \/ \E slot \in Slots, id \in 1..MaxExchanges, body \in HonestRespondBodies :
          PostRespond(slot, "bob", id, body)
    \/ \E slot \in Slots : PostRespondSave(slot)
    \/ PollConfirmation

\* the interval timer keeps calling checkConfirmation and the server answers
\* every request it has taken
SpecPoll ==
    /\ InitPoll /\ [][NextPoll]_vars
    /\ WF_vars(PollConfirmation)
    /\ \A slot \in Slots : WF_vars(PostRespondSave(slot))

\* The key exchange routes called by either user with complete requests.
NextRoles ==
    \/ \E slot \in Slots : PostInitiate(slot, "alice", "bob", CHOOSE b \in InitiateBodies : ~MissingFields(b))
    \/ \E slot \in Slots : PostInitiateCreate(slot)
    \/ \E slot \in Slots, u \in Users, id \in 1..MaxExchanges :
          PostRespond(slot, u, id, CHOOSE b \in RespondBodies : ~MissingFields(b))
    \/ \E slot \in Slots : PostRespondSave(slot)
    \/ \E slot \in Slots, u \in Users, id \in 1..MaxExchanges : PostConfirm(slot, u, id)
    \/ \E slot \in Slots : PostConfirmSave(slot)

SpecRoles == Init /\ [][NextRoles]_vars

\* Files uploaded to a store that edits the chunk list, and downloaded.
InitStore == InitBase /\ InitChatApp /\ drift = [u \in Users |-> 0] /\ fileRun \in StoreInputs(MaxFileLen)

NextStore ==
    \/ UploadFileRun
    \/ DownloadFileRun

SpecStore == InitStore /\ [][NextStore]_vars

\* The client guard and the demo validator given the same messages.
NextDemo ==
    \E c \in Convs, n \in Nonces, o \in TsOffsets, s \in DemoSeqs :
        ValidateBoth(c, n, now + o, s)

SpecDemo == Init /\ [][NextDemo]_vars

\* The private keys of the users stored, damaged and retrieved.
NextKeyStorage ==
    \/ \E u \in Users, pw \in Passwords : StorePrivateKey(<<"sk", u>>, pw, u, "salt1", "iv1")
    \/ \E u \in Users, how \in KeyDamages : DamageStoredKey(u, how)
    \/ \E opened \in BOOLEAN, pw \in Passwords, u \in Users, t \in KeyTypes :
          RetrievePrivateKeyCall(opened, pw, u, t)

SpecKeyStorage == Init /\ [][NextKeyStorage]_vars

\* Messages and files encrypted one after the other under one session key.
NextIv ==
    \/ \E iv \in IVs : EncryptMessageCall(<<"a">>, "k1", iv)
    \/ \E n \in 0..MaxFileLen, ivOf \in [0..(MaxChunks - 1) -> IVs] :
          EncryptFileCall(FileOfLength(n), "k1", ivOf)

SpecIv == Init /\ [][NextIv]_vars

\* Files encrypted, relayed in some order and decrypted.
InitFile == InitBase /\ InitChatApp /\ drift = [u \in Users |-> 0] /\ fileRun \in FileInputs(MaxFileLen)

NextFile ==
    \/ EncryptFileRun
    \/ DecryptFileRun

SpecFile == InitFile /\ [][NextFile]_vars

(***************************************************************************)
(* Properties of the replay guard.                                         *)
(***************************************************************************)
\* the reason a live-mode call with these inputs returns in the current state
LiveReason(n, o, s) ==
    ValidateMessageMetadata([nonce |-> n, timestamp |-> now + o, sequenceNumber |-> s],
                            "u1", FALSE, nonceStore, sequenceStore, now).reason

\* a record for (u1, n) is in the nonce store
Recorded(n) == \E r \in nonceStore : r.id = <<"u1", n>>

\* the stored next expected sequence of u1, 0 when there is no record
Expected ==
    IF \E r \in sequenceStore : r.id = "u1"
    THEN (CHOOSE r \in sequenceStore : r.id = "u1").nextSequence
    ELSE 0

InWindow(o) == 0 - 300000 <= o /\ o <= 60000

\* C1 as stated: while the record of a nonce is stored, every live-mode
\* submission of that nonce returns DUPLICATE_NONCE.
C1_AlwaysDuplicateNonce ==
    \A n \in Nonces, o \in TsOffsets, s \in Seqs :
        Recorded(n) => LiveReason(n, o, s) = "DUPLICATE_NONCE"

\* C1 amended: while the record of a nonce is stored, no live-mode submission
\* of that nonce in the conversation is accepted; the reason is DUPLICATE_NONCE
\* whenever the timestamp is inside the freshness window (whatever the sequence
\* number is), MESSAGE_EXPIRED for an older and FUTURE_TIMESTAMP for a later one.
C1_RecordedNonceRejected ==
    \A n \in Nonces, o \in TsOffsets, s \in Seqs :
        Recorded(n) =>
            /\ LiveReason(n, o, s) # "VALID"
            /\ InWindow(o) => LiveReason(n, o, s) = "DUPLICATE_NONCE"
            /\ o < 0 - 300000 => LiveReason(n, o, s) = "MESSAGE_EXPIRED"
            /\ o > 60000 => LiveReason(n, o, s) = "FUTURE_TIMESTAMP"

\* a live call with a fresh timestamp and a sequence number not below the
\* expected one has just been rejected as DUPLICATE_NONCE
C1_Witness ==
    /\ last.op = "validate" /\ ~last.isHistorical
    /\ last.reason = "DUPLICATE_NONCE"
    /\ InWindow(last.offset)
    /\ last.sequenceNumber >= Expected

\* C2 as stated: every live-mode message with a sequence number below the
\* next expected one returns OLD_SEQUENCE.
C2_AlwaysOldSequence ==
    \A n \in Nonces, o \in TsOffsets, s \in Seqs :
        s < Expected => LiveReason(n, o, s) = "OLD_SEQUENCE"

\* C2 amended: a live-mode message with a sequence number below the next
\* expected one is never accepted, and is rejected with OLD_SEQUENCE when its
\* nonce is not recorded and its timestamp is inside the freshness window;
\* the next expected sequence is above the sequence last accepted in live mode,
\* so the same sequence number offered again with another nonce is rejected.
C2_OldSequenceRejected ==
    /\ \A n \in Nonces, o \in TsOffsets, s \in Seqs :
          s < Expected =>
              /\ LiveReason(n, o, s) # "VALID"
              /\ (~Recorded(n) /\ InWindow(o)) => LiveReason(n, o, s) = "OLD_SEQUENCE"
    /\ \A a \in lastAccepted["u1"] :
          /\ Expected >= a + 1
          /\ \A n \in Nonces, o \in TsOffsets, s \in 0..a : LiveReason(n, o, s) # "VALID"
    /\ (lastAccepted["u1"] = {} /\ sequenceStore = {}) => Expected = 0

\* a sequence number has been accepted in live mode and the same number, with
\* an unrecorded nonce and a fresh timestamp, has just been rejected
C2_Witness ==
    /\ last.op = "validate" /\ ~last.isHistorical
    /\ last.reason = "OLD_SEQUENCE"
    /\ InWindow(last.offset)
    /\ last.sequenceNumber \in lastAccepted["u1"]

\* the verdict of the server middleware on a body with this timestamp offset
ServerVerdict(n, o) ==
    ValidateReplayProtection([nonce |-> n, timestamp |-> now + o, sequenceNumber |-> 0],
                             messages, now)

\* C3: in live mode the client guard passes the freshness check exactly when
\* now - 300000 <= timestamp <= now + 60000, reports MESSAGE_EXPIRED below and
\* FUTURE_TIMESTAMP above, whatever the nonce and sequence number are; the
\* server middleware enforces the same window, so every stored message had a
\* timestamp inside it when it was stored.
C3_FreshnessWindow ==
    /\ \A n \in Nonces, o \in TsOffsets, s \in Seqs :
          /\ (o < 0 - 300000) <=> (LiveReason(n, o, s) = "MESSAGE_EXPIRED")
          /\ (o > 60000) <=> (LiveReason(n, o, s) = "FUTURE_TIMESTAMP")
          /\ InWindow(o) <=> (LiveReason(n, o, s) \in {"VALID", "DUPLICATE_NONCE", "OLD_SEQUENCE"})
    /\ \A n \in Nonces, o \in TsOffsets :
          /\ (o < 0 - 300000) <=> (ServerVerdict(n, o) = "Message expired - too old")
          /\ (o > 60000) <=> (ServerVerdict(n, o) = "Invalid timestamp - future date")
    /\ \A m \in messages :
          m.createdAt - 300000 <= m.timestamp /\ m.timestamp <= m.createdAt + 60000
    /\ (lastPost.op = "post" /\ lastPost.status = 201) => messages # {}

\* the client has just accepted a message exactly maxAge old and the server
\* holds one stored with a timestamp exactly one minute ahead
C3_Witness ==
    /\ last.op = "validate" /\ last.reason = "VALID" /\ last.offset = 0 - 300000
    /\ \E m \in messages : m.timestamp = m.createdAt + 60000

(***************************************************************************)
(* Properties of the handshake.                                            *)
(***************************************************************************)
\* sa and sb are the two ends of one handshake: bob responded to the
\* initiation sa was completed with, and alice completed with bob's response
SameHandshake(sa, sb) ==
    /\ sb.msg.ecdhPublicKey = <<PublicKeyOf[sa.pending.ecdhPrivateKey]>>
    /\ sb.msg.nonce = sa.pending.nonce
    /\ sa.msg.ecdhPublicKey = <<PublicKeyOf[sb.ecdhPrivateKey]>>
    /\ sa.msg.nonce = sb.nonce

\* C4: whenever respondToKeyExchange and completeKeyExchange both succeeded
\* in one handshake, the two session keys are equal, derived from the same
\* ECDH secret and from the salt initiator nonce followed by responder nonce.
C4_KeyAgreement ==
    \A sa \in sessA, sb \in sessB :
        SameHandshake(sa, sb) =>
            /\ sa.key = sb.key
            /\ sa.key.salt = sa.pending.nonce \o sb.nonce
            /\ sa.key.secret = {PublicKeyOf[sa.pending.ecdhPrivateKey],
                                PublicKeyOf[sb.ecdhPrivateKey]}

C4_Witness ==
    \E sa \in sessA, sb \in sessB :
        SameHandshake(sa, sb) /\ sa.key = sb.key /\ sa.pending.nonce # sb.nonce

\* C5: a message whose signed fields differ from everything the peer signed
\* is refused by respondToKeyExchange and by completeKeyExchange, and every
\* session key a party holds was derived from fields the peer signed.
C5_TamperRejected ==
    /\ \A m \in Deliverable(Clock("bob")) :
          ~(\E w \in wire : w.from = "alice" /\ SignedFields(w.msg) = SignedFields(m))
          => RespondToKeyExchange(m, "alice", "bob", "b1", "nb1", Clock("bob")).result # "ok"
    /\ \A m \in Deliverable(Clock("alice")), p \in kxPending :
          ~(\E w \in wire : w.from = "bob" /\ SignedFields(w.msg) = SignedFields(m))
          => CompleteKeyExchange(m, "bob", p.ecdhPrivateKey, p.nonce, Clock("alice")).result # "ok"
    /\ \A s \in sessB :
          \E w \in wire : w.from = "alice" /\ SignedFields(w.msg) = SignedFields(s.msg)
    /\ \A s \in sessA :
          \E w \in wire : w.from = "bob" /\ SignedFields(w.msg) = SignedFields(s.msg)

C5_Witness ==
    /\ lastKx.respond.op = "call"
    /\ ~lastKx.respond.genuine /\ ~lastKx.respond.expired
    /\ lastKx.respond.result = "Invalid signature"
    /\ lastKx.complete.op = "call"
    /\ ~lastKx.complete.genuine /\ ~lastKx.complete.expired
    /\ lastKx.complete.result = "Invalid signature"
    /\ sessB # {}

\* C6: a message older than the maximum age is refused as expired by
\* respondToKeyExchange and by completeKeyExchange whatever its signature,
\* and no session key was ever derived from a message that old.
C6_ExpiredFirst ==
    /\ \A m \in Deliverable(Clock("bob")) :
          Clock("bob") - m.timestamp > 300000
          => RespondToKeyExchange(m, "alice", "bob", "b1", "nb1", Clock("bob")).result
                = "Key exchange message expired"
    /\ \A m \in Deliverable(Clock("alice")), p \in kxPending :
          Clock("alice") - m.timestamp > 300000
          => CompleteKeyExchange(m, "bob", p.ecdhPrivateKey, p.nonce, Clock("alice")).result
                = "Key exchange message expired"
    /\ \A s \in sessA \cup sessB : ~(s.at - s.msg.timestamp > 300000)

C6_Witness ==
    /\ lastKx.respond.op = "call"
    /\ lastKx.respond.expired /\ lastKx.respond.genuine
    /\ lastKx.respond.result = "Key exchange message expired"
    /\ lastKx.complete.op = "call"
    /\ lastKx.complete.expired /\ ~lastKx.complete.genuine
    /\ lastKx.complete.result = "Key exchange message expired"

\* C7: no session key is derived from a message whose timestamp is later
\* than the receiver's clock plus the clock skew tolerance.
C7_FutureTimestampRejected ==
    \A s \in sessA \cup sessB : ~(s.msg.timestamp > s.at + KX_CLOCK_SKEW)

\* C8: a signed handshake message produces a session key at most once.
C8_SingleUse ==
    /\ \A s1, s2 \in sessB : s1.msg = s2.msg => s1 = s2
    /\ \A s1, s2 \in sessA : s1.msg = s2.msg => s1 = s2

(***************************************************************************)
(* Properties of the key exchange routes.                                  *)
(***************************************************************************)
\* C9: the collection never holds two pending key exchanges (INITIATED or
\* RESPONDED) of the same initiator for the same responder.
C9_OnePendingPerPair ==
    \A k1, k2 \in keyExchanges :
        (/\ k1.initiatorId = k2.initiatorId
         /\ k1.responderId = k2.responderId
         /\ k1.status \in {"INITIATED", "RESPONDED"}
         /\ k2.status \in {"INITIATED", "RESPONDED"})
        => k1 = k2

\* C10: no key exchange is confirmed after its expiresAt.
C10_NoConfirmAfterExpiry ==
    \A k \in keyExchanges : k.status = "CONFIRMED" => k.confirmedAt <= k.expiresAt

\* C11: a key exchange whose responder message the initiator's
\* completeKeyExchange refused is never CONFIRMED at the server.
C11_RejectedNeverConfirmed ==
    \A k \in keyExchanges : k.id \in rejected => k.status # "CONFIRMED"

(***************************************************************************)
(* Properties of historical mode and of the sequence counter.              *)
(***************************************************************************)
\* what a historical-mode call with nonce n, timestamp now + o and sequence
\* number s would return in the current state
HistoricalOutcome(n, o, s) ==
    ValidateMessageMetadata([nonce |-> n, timestamp |-> now + o, sequenceNumber |-> s],
                            "u1", TRUE, nonceStore, sequenceStore, now)

\* the nonce records stored for nonce n of conversation u1
RecordsOf(store, n) == {r \in store : r.id = <<"u1", n>>}

\* C12 as stated: historical mode never returns MESSAGE_EXPIRED,
\* FUTURE_TIMESTAMP or OLD_SEQUENCE, and no historical validation ever writes
\* the record of a nonce that was written before.
C12_HistoricalWritesOnce ==
    /\ \A n \in Nonces, o \in TsOffsets, s \in Seqs :
          HistoricalOutcome(n, o, s).reason
             \notin {"MESSAGE_EXPIRED", "FUTURE_TIMESTAMP", "OLD_SEQUENCE"}
    /\ nonceWrites.rewritten = {}

\* C12: historical mode accepts whatever the timestamp and the sequence
\* number are; while the record of the nonce is stored it leaves the nonce
\* store as it is, and otherwise it adds exactly one record, expiring one
\* retention period from now.
C12_HistoricalLenient ==
    \A n \in Nonces, o \in TsOffsets, s \in Seqs :
        LET out == HistoricalOutcome(n, o, s)
        IN  /\ out.reason = "VALID"
            /\ (\E r \in nonceStore : r.id = <<"u1", n>>) => out.nonces = nonceStore
            /\ ~(\E r \in nonceStore : r.id = <<"u1", n>>)
                  => RecordsOf(out.nonces, n) = {[id |-> <<"u1", n>>, expiresAt |-> now + 3600000]}

C12_Witness ==
    /\ last.op = "validate" /\ last.isHistorical /\ last.reason = "VALID"
    /\ last.offset = 0 - 300001
    /\ last.sequenceNumber < Expected
    /\ \E r \in nonceStore : r.expiresAt < now + 3600000

\* C13: a historical-mode validation of a nonce whose record is stored is
\* rejected as a duplicate and changes neither store.
C13_HistoricalDuplicateRejected ==
    \A n \in Nonces, o \in TsOffsets, s \in Seqs :
        Recorded(n) =>
            /\ HistoricalOutcome(n, o, s).reason = "DUPLICATE_NONCE"
            /\ HistoricalOutcome(n, o, s).nonces = nonceStore
            /\ HistoricalOutcome(n, o, s).sequences = sequenceStore

\* the next expected sequence of u1 that a sequence store holds
NextExpectedIn(store) ==
    IF \E r \in store : r.id = "u1"
    THEN (CHOOSE r \in store : r.id = "u1").nextSequence
    ELSE 0

Max(a, b) == IF a >= b THEN a ELSE b

\* C14: no validation, live or historical, lowers the next expected sequence;
\* an accepted sequence number s leaves it at max(previous, s + 1); and a
\* sequence number accepted in live mode is greater than the one accepted in
\* live mode before it.
C14_SequenceMonotonic ==
    /\ \A n \in Nonces, o \in TsOffsets, s \in Seqs, h \in BOOLEAN :
          LET out == ValidateMessageMetadata(
                         [nonce |-> n, timestamp |-> now + o, sequenceNumber |-> s],
                         "u1", h, nonceStore, sequenceStore, now)
          IN  /\ NextExpectedIn(out.sequences) >= Expected
              /\ out.reason = "VALID"
                    => NextExpectedIn(out.sequences) = Max(Expected, s + 1)
              /\ out.reason = "VALID" /\ ~h
                    => \A x \in lastAccepted["u1"] : s > x
    /\ \A x \in lastAccepted["u1"] : Expected >= x + 1

C14_Witness ==
    /\ last.op = "validate" /\ last.isHistorical /\ last.reason = "VALID"
    /\ last.sequenceNumber + 1 < Expected
    /\ lastAccepted["u1"] # {}

\* C15: overlapping calls never accept one nonce twice in live mode, and
\* once all calls have returned the next expected sequence is above every
\* accepted sequence number.
C15_NoRace ==
    /\ \A c1, c2 \in calls :
          (/\ c1.reason = "VALID" /\ ~c1.isHistorical
           /\ c2.reason = "VALID" /\ ~c2.isHistorical
           /\ c1.nonce = c2.nonce)
          => c1 = c2
    /\ (\A c \in calls : c.pc = "done")
          => \A c \in calls : c.reason = "VALID" => Expected >= c.sequenceNumber + 1

\* C16: the server stores no message whose sequence number is lower than
\* that of a message of the same sender and receiver stored earlier.
C16_ServerSequenceChecked ==
    \A m1, m2 \in messages :
        (/\ m1.senderId = m2.senderId /\ m1.receiverId = m2.receiverId
         /\ m1.createdAt < m2.createdAt)
        => m2.sequenceNumber >= m1.sequenceNumber

\* C17: within each conversation the sequence numbers attached to the
\* messages and files sent are strictly increasing.
C17_SenderSequenceIncreasing ==
    \A c \in Convs :
        \A i, j \in 1..Len(attached[c]) : i < j => attached[c][i] < attached[c][j]

\* C18: an untouched encrypted message decrypts under the same key to the
\* message that was encrypted, and one whose ciphertext or iv was altered, or
\* that is opened with another key, gives the decryption error.
C18_CipherRoundTrip ==
    cipherRun.op = "message" =>
        /\ (cipherRun.how = "none" /\ cipherRun.sameKey)
              => cipherRun.result = [ok |-> TRUE, plaintext |-> cipherRun.message]
        /\ (cipherRun.how \in {"ciphertext", "iv", "garble"} \/ ~cipherRun.sameKey)
              => cipherRun.result
                    = [ok |-> FALSE,
                       error |-> "Failed to decrypt message - invalid key or tampered data"]

\* C19: encryptFile reports the file's length as totalSize, numbers the
\* chunks 0..totalChunks-1, makes one chunk for a file of at most CHUNK_SIZE
\* bytes and ceil(L / CHUNK_SIZE) chunks otherwise, none with more than
\* CHUNK_SIZE plaintext bytes; and decryptFile of the untouched chunks in any
\* order, under the same key, returns the file's bytes.
C19_FileRoundTrip ==
    fileRun.op = "file" =>
        /\ fileRun.totalSize = Len(fileRun.fileData)
        /\ fileRun.indices = [i \in 1..fileRun.totalChunks |-> i - 1]
        /\ fileRun.totalChunks
              = IF Len(fileRun.fileData) <= CHUNK_SIZE THEN 1
                ELSE (Len(fileRun.fileData) + CHUNK_SIZE - 1) \div CHUNK_SIZE
        /\ \A i \in DOMAIN fileRun.sizes : fileRun.sizes[i] <= CHUNK_SIZE
        /\ (fileRun.bad = 0 - 1 /\ fileRun.sameKey)
              => fileRun.result = [ok |-> TRUE, bytes |-> fileRun.fileData]

\* a file of several chunks with a partial last chunk, supplied last chunk
\* first, came back whole
C19_Witness ==
    /\ fileRun.op = "file"
    /\ fileRun.totalChunks >= 2
    /\ Len(fileRun.fileData) % CHUNK_SIZE # 0
    /\ fileRun.order[1] = fileRun.totalChunks
    /\ fileRun.bad = 0 - 1
    /\ fileRun.sameKey
    /\ fileRun.result = [ok |-> TRUE, bytes |-> fileRun.fileData]

\* C20: when one chunk handed to decryptFile does not decrypt (its data or iv
\* was altered, or the key is another one), decryptFile gives the error and no
\* bytes, wherever the bad chunk is.
C20_FileAllOrNothing ==
    (fileRun.op = "file" /\ (fileRun.bad # 0 - 1 \/ ~fileRun.sameKey))
        => fileRun.result
              = [ok |-> FALSE, error |-> "Failed to decrypt file - invalid key or tampered data"]

\* the bad chunk is the last one in index order, all chunks before it open
\* under the receiver's key, and no bytes were returned
C20_Witness ==
    /\ fileRun.op = "file"
    /\ fileRun.totalChunks >= 2
    /\ fileRun.sameKey
    /\ fileRun.bad = fileRun.totalChunks - 1
    /\ fileRun.result.ok = FALSE

(***************************************************************************)
(* Properties of the ivs and of the ephemeral keys.                        *)
(***************************************************************************)
\* C21 as stated: no two AEAD encryptions under the session key (messages or
\* file chunks) use the same iv.
C21_IvNeverRepeats ==
    \A i, j \in 1..Len(ivLog) : i # j => ivLog[i].used # ivLog[j].used

\* C21: every AEAD encryption, of a message or of a file chunk, uses and
\* sends the iv that getRandomValues returned for that encryption alone, so
\* two encryptions share an iv only when two draws return the same value.
C21_FreshDrawPerEncryption ==
    /\ \A i \in 1..Len(ivLog) : ivLog[i].used = ivLog[i].drawn /\ ivLog[i].sent = ivLog[i].drawn
    /\ \A i, j \in 1..Len(ivLog) :
          (i # j /\ ivLog[i].used = ivLog[j].used) => ivLog[i].drawn = ivLog[j].drawn

\* a message and two chunks of one file were encrypted with ivs that differ
\* between neighbours
C21_Witness ==
    /\ Len(ivLog) >= 3
    /\ \E i \in 1..(Len(ivLog) - 1) :
          /\ ivLog[i].op = "chunk" /\ ivLog[i + 1].op = "chunk"
          /\ ivLog[i].used # ivLog[i + 1].used
    /\ \E i \in 1..Len(ivLog) : ivLog[i].op = "message"

\* C22: no sessionStorage entry holds the private half of an ephemeral ECDH
\* key pair, and once the session key is derived no pending entry, of this
\* or of an earlier attempt with the peer, is left.
C22_EphemeralKeyNeverStored ==
    /\ \A p \in appPending : "ecdhPrivateKey" \notin DOMAIN p
    /\ appSessionKey # {} => appPending = {}

\* C23: a retrievePrivateKey call that fails, whatever the cause, gives the
\* one error and no key; it gives a key only when the database opened and the
\* undamaged record of the user is unwrapped with the password it was stored with.
C23_UnwrapFailureGeneric ==
    keyRun.op = "retrieve" =>
        IF /\ keyRun.opened
           /\ keyRun.stored # None
           /\ ~keyRun.stored.damaged
           /\ keyRun.stored.password = keyRun.password
        THEN keyRun.result
                = [ok |-> TRUE,
                   privateKey |-> [key |-> keyRun.stored.key, algorithm |-> keyRun.keyType]]
        ELSE keyRun.result
                = [ok |-> FALSE,
                   error |-> "Failed to retrieve private key - wrong password or key not found"]

\* the right password on a record whose content is no longer a PKCS#8 key
\* (the import step fails) after the database opened
C23_Witness ==
    /\ keyRun.op = "retrieve"
    /\ keyRun.opened
    /\ keyRun.stored # None
    /\ keyRun.stored.damaged
    /\ keyRun.stored.password = keyRun.password
    /\ ~ImportsAsPkcs8(Base64ToArrayBuffer(keyRun.stored.data.encryptedKey).data)
    /\ keyRun.result.ok = FALSE

(***************************************************************************)
(* Properties of the replay state across directions and conversations.     *)
(***************************************************************************)
\* what a live-mode rendering of msg returns on the given stores
DisplayOutcome(msg, nStore, sStore) ==
    ValidateMessageMetadata([nonce |-> msg.nonce, timestamp |-> msg.timestamp,
                             sequenceNumber |-> msg.sequenceNumber],
                            ConversationIdOf(msg, selectedUser), FALSE, nStore, sStore, now)

\* C24: the replay state of the messages the user sent to the contact is
\* separate from that of the messages the contact sent to the user: while no
\* message of a direction has been validated, the first message of that
\* direction (sequence number 0, a nonce not recorded, a current timestamp) is
\* accepted in live mode, whatever was validated of the other direction.
C24_DirectionsSeparate ==
    \A senderId \in {Me, selectedUser}, n \in Nonces :
        ((\A m \in shown : m.senderId # senderId) /\ ~HasSeenNonce(nonceStore, n, selectedUser))
            => DisplayOutcome(LoadedMessage(senderId, selectedUser,
                                            EncryptMessage(<<"a">>, "k1", "iv1"), n, now, 0),
                              nonceStore, sequenceStore).reason = "VALID"

\* the records of conversation y that have not expired at time t
UnexpiredOf(store, y, t) == {r \in store : r.id[1] = y /\ ~(r.expiresAt < t)}

\* the records of conversation y
NoncesOf(store, y) == {r \in store : r.id[1] = y}
SequencesOf(store, y) == {r \in store : r.id = y}

\* C25: a validateMessageMetadata call for one conversation leaves the
\* unexpired nonce records and the expected sequence number of every other
\* conversation as they were, and what a call for a conversation returns
\* depends on the records of that conversation only, so a nonce recorded in
\* one conversation is still accepted in another.
C25_ConversationIndependence ==
    /\ [](\A y \in Convs, n \in Nonces, s \in Seqs, h \in BOOLEAN :
            ValidateMessageMetadata([nonce |-> n, timestamp |-> now, sequenceNumber |-> s],
                                    y, h, nonceStore, sequenceStore, now).reason
              = ValidateMessageMetadata([nonce |-> n, timestamp |-> now, sequenceNumber |-> s],
                                        y, h, NoncesOf(nonceStore, y),
                                        SequencesOf(sequenceStore, y), now).reason)
    /\ [][\A y \in Convs :
            (last'.op = "validate" /\ last'.conversationId # y)
               => /\ GetNextSequenceNumber(sequenceStore', y)
                        = GetNextSequenceNumber(sequenceStore, y)
                  /\ UnexpiredOf(nonceStore', y, now) = UnexpiredOf(nonceStore, y, now)]_vars

\* one nonce is recorded in both conversations, the last call was accepted
\* in live mode and the two conversations expect different sequence numbers
C25_Witness ==
    /\ \E n \in Nonces : HasSeenNonce(nonceStore, n, "u1") /\ HasSeenNonce(nonceStore, n, "u2")
    /\ last.op = "validate" /\ last.reason = "VALID" /\ ~last.isHistorical
    /\ GetNextSequenceNumber(sequenceStore, "u1") # GetNextSequenceNumber(sequenceStore, "u2")
    /\ GetNextSequenceNumber(sequenceStore, "u1") > 0
    /\ GetNextSequenceNumber(sequenceStore, "u2") > 0

\* C26: a nonce is recorded with expiresAt one hour after the time of
\* recording; when a recordNonce has run (the store changed), no record with
\* expiresAt < now is left; and a record that disappears had expiresAt < now.
C26_NonceEviction ==
    [][/\ \A r \in nonceStore' \ nonceStore : r.expiresAt = now + 3600000
       /\ nonceStore' # nonceStore => \A r \in nonceStore' : ~(r.expiresAt < now)
       /\ \A r \in nonceStore :
             (\A q \in nonceStore' : q.id # r.id) => r.expiresAt < now]_vars

\* a recorded nonce has been evicted by the recordNonce of another nonce,
\* whose record is stored with the expiry of one hour from now
C26_Witness ==
    /\ \E k \in nonceWrites.written : \A r \in nonceStore : r.id # k
    /\ \E r \in nonceStore : r.expiresAt = now + 3600000
    /\ last.op = "validate" /\ last.reason = "VALID"

\* C29: a nonce whose stored record has expired (expiresAt < now) counts as
\* not recorded: a live-mode message carrying it, with a current timestamp,
\* is not answered DUPLICATE_NONCE.
C29_ExpiredNonceNotDuplicate ==
    \A n \in Nonces, s \in Seqs :
        (\A r \in nonceStore : r.id = NonceKey("u1", n) => r.expiresAt < now)
            => ValidateMessageMetadata([nonce |-> n, timestamp |-> now, sequenceNumber |-> s],
                                       "u1", FALSE, nonceStore, sequenceStore, now).reason
                  # "DUPLICATE_NONCE"

\* C27: an encrypted message that was accepted and decrypted in live mode
\* is not accepted in live mode a second time, whatever nonce, timestamp and
\* sequence number it is presented with.
C27_CiphertextAcceptedOnce ==
    \A m \in shown : m.live <= 1

\* C28: in live mode the reason returned is that of the first failing check
\* in the order expired timestamp, future timestamp, duplicate nonce, old
\* sequence number, and the message is valid when none fails.
C28_CheckOrder ==
    \A n \in Nonces, o \in TsOffsets, s \in Seqs :
        ValidateMessageMetadata([nonce |-> n, timestamp |-> now + o, sequenceNumber |-> s],
                                "u1", FALSE, nonceStore, sequenceStore, now).reason
          = IF now - (now + o) > 300000 THEN "MESSAGE_EXPIRED"
            ELSE IF now + o > now + 60000 THEN "FUTURE_TIMESTAMP"
            ELSE IF \E r \in nonceStore : r.id = <<"u1", n>> THEN "DUPLICATE_NONCE"
            ELSE IF \E r \in sequenceStore : r.id = "u1" /\ s < r.nextSequence
            THEN "OLD_SEQUENCE"
            ELSE "VALID"

\* the last live call carried a recorded nonce and a sequence number below
\* the expected one, and was answered DUPLICATE_NONCE
C28_Witness ==
    /\ last.op = "validate" /\ ~last.isHistorical
    /\ last.reason = "DUPLICATE_NONCE"
    /\ last.sequenceNumber < GetNextSequenceNumber(sequenceStore, "u1")

\* C30: the initiator confirms at the server only after it has verified the
\* responder's message and derived the session key, so while a key exchange
\* record is CONFIRMED the initiator holds a session key.
C30_ConfirmedAfterSessionKey ==
    \A k \in keyExchanges : k.status = "CONFIRMED" => appSessionKey # {}

(***************************************************************************)
(* Properties of the server key exchange routes under concurrent requests. *)
(***************************************************************************)
\* the status changes /respond and /confirm are meant to make
StatusSteps == {<<"INITIATED", "RESPONDED">>, <<"RESPONDED", "CONFIRMED">>}

\* C31: a key exchange record is created INITIATED, its status changes only
\* INITIATED -> RESPONDED and RESPONDED -> CONFIRMED, a CONFIRMED record is
\* never modified or deleted, and a RESPONDED or CONFIRMED record has all four
\* responder fields set.
C31_StatusMachine ==
    /\ [](\A k \in keyExchanges :
             k.status \in {"RESPONDED", "CONFIRMED"} => ~MissingFields(k.responder))
    /\ [][/\ \A k \in keyExchanges' :
                (\A j \in keyExchanges : j.id # k.id) => k.status = "INITIATED"
          /\ \A j \in keyExchanges :
                /\ j.status = "CONFIRMED" => j \in keyExchanges'
                /\ \A k \in keyExchanges' :
                      k.id = j.id /\ k.status # j.status
                          => <<j.status, k.status>> \in StatusSteps]_vars

(***************************************************************************)
(* The demo validator against the client guard.                            *)
(***************************************************************************)
\* the nonces of conversation c each validator has recorded
ClientNoncesOf(c) == {r.id[2] : r \in {q \in nonceStore : q.id[1] = c}}
DemoNoncesOf(c) == {k[3] : k \in {q \in demo.seenNonces : <<q[1], q[2]>> = DemoPair[c]}}

\* both validators gave the last message of conversation c the same verdict
\* and reason, and hold the same recorded nonces and next expected sequence
Agree(c) ==
    /\ last.op = "validate" /\ last.conversationId = c => demo.reason = last.reason
    /\ DemoExpectedSeq(demo.conversationSequence, DemoPair[c])
           = GetNextSequenceNumber(sequenceStore, c)
    /\ DemoNoncesOf(c) = ClientNoncesOf(c)

\* C32 (as stated): for every conversation the demo validator and the
\* live-mode client guard return the same verdict and reason for every
\* message and their next expected sequence numbers stay equal.
C32_ValidatorsAgree ==
    \A c \in Convs : last.op = "validate" /\ last.conversationId = c => Agree(c)

\* C32 (amended): the two validators agree on every conversation for which the
\* demo script holds no pre-seeded sequence entry at the start.
C32_ValidatorsAgreeUnseeded ==
    \A c \in Convs :
        DemoPair[c] \notin {r.id : r \in {[id |-> <<"alice123", "bob456">>]}} => Agree(c)

\* an unseeded conversation in which both validators accepted a message and
\* then refused a new nonce for its old sequence number
C32_Witness ==
    /\ last.op = "validate" /\ last.conversationId = "u2"
    /\ last.reason = "OLD_SEQUENCE"
    /\ demo.reason = "OLD_SEQUENCE"
    /\ DemoNoncesOf("u2") # {}
    /\ GetNextSequenceNumber(sequenceStore, "u2") > 0

(***************************************************************************)
(* Frame of a rejected validation.                                         *)
(***************************************************************************)
\* the reasons live mode returns with valid: false after one of its four tests
RejectReasons == {"MESSAGE_EXPIRED", "FUTURE_TIMESTAMP", "DUPLICATE_NONCE", "OLD_SEQUENCE"}

\* C33: a live-mode validateMessageMetadata call that returns valid: false with
\* reason MESSAGE_EXPIRED, FUTURE_TIMESTAMP, DUPLICATE_NONCE or OLD_SEQUENCE
\* leaves the nonce store and the sequence store exactly as they were.
C33_RejectionChangesNothing ==
    [][last'.op = "validate" /\ ~last'.isHistorical /\ last'.reason \in RejectReasons
          => nonceStore' = nonceStore /\ sequenceStore' = sequenceStore]_vars

\* a new nonce was refused for its old sequence number and is not recorded:
\* the store holds the one nonce accepted before
C33_Witness ==
    /\ last.op = "validate" /\ ~last.isHistorical
    /\ last.reason = "OLD_SEQUENCE"
    /\ Cardinality(nonceStore) = 1
    /\ GetNextSequenceNumber(sequenceStore, "u1") = 1

(***************************************************************************)
(* Replay after eviction.                                                  *)
(***************************************************************************)
\* the verdict live mode would give envelope e now
ReplayVerdict(e) ==
    ValidateMessageMetadata([nonce |-> e.nonce, timestamp |-> e.timestamp,
                             sequenceNumber |-> e.sequenceNumber],
                            e.conversationId, FALSE, nonceStore, sequenceStore, now).reason

\* C34: an envelope (nonce, timestamp, sequenceNumber) accepted once in live
\* mode is refused in live mode in the same conversation at every later time,
\* also after its nonce record has expired and been purged.
C34_ReplayStaysBlocked == \A e \in accepted : ReplayVerdict(e) # "VALID"

\* an accepted envelope whose nonce record has been purged is reached
C34_Witness ==
    \E e \in accepted :
        /\ ~HasSeenNonce(nonceStore, e.nonce, e.conversationId)
        /\ ReplayVerdict(e) = "MESSAGE_EXPIRED"

(***************************************************************************)
(* Responses to one key exchange.                                          *)
(***************************************************************************)
\* C35: the responder fields of a key exchange record (ephemeral key,
\* signature, nonce, timestamp) are never overwritten once set, also when two
\* /respond requests for the record interleave between findOne and save.
C35_ResponderFieldsWriteOnce ==
    [][\A j \in keyExchanges, k \in keyExchanges' :
          j.id = k.id /\ ~MissingFields(j.responder) => k.responder = j.responder]_vars

(***************************************************************************)
(* Server nonce uniqueness under overlapping requests.                     *)
(***************************************************************************)
\* C36: no two stored Message records have the same nonce, also when two POST
\* /api/messages requests with one nonce both pass the findOne of the
\* middleware before either insert runs; at most one of two such requests is
\* answered 201.
C36_StoredNoncesUnique ==
    /\ \A m1, m2 \in messages : m1.nonce = m2.nonce => m1 = m2
    /\ \A s1, s2 \in Slots :
          /\ s1 # s2
          /\ msgInflight[s1].route = "answered" /\ msgInflight[s2].route = "answered"
          /\ msgInflight[s1].nonce = msgInflight[s2].nonce
          => ~(msgInflight[s1].status = 201 /\ msgInflight[s2].status = 201)

\* two requests with one nonce passed the middleware together: one was
\* answered 201 and the other 500 from the insert
C36_Witness ==
    /\ msgInflight["r1"].route = "answered" /\ msgInflight["r2"].route = "answered"
    /\ msgInflight["r1"].nonce = msgInflight["r2"].nonce
    /\ msgInflight["r1"].status = 201
    /\ msgInflight["r2"].status = 500

(***************************************************************************)
(* Liveness of the confirmation poll.                                      *)
(***************************************************************************)
\* bob has responded to the latest key exchange alice initiated, and alice
\* does not initiate again
LatestResponded ==
    /\ nextId = MaxExchanges
    /\ \E k \in keyExchanges : k.id = nextId /\ k.status = "RESPONDED"

\* C37: once bob has responded to the latest key exchange alice initiated
\* with him, alice, polling with bob selected, eventually holds a session key
\* (also when earlier entries are still in sessionStorage).
C37_InitiatorEventuallyHoldsKey == LatestResponded ~> (appSessionKey # {})

(***************************************************************************)
(* Integrity of a stored file as a whole.                                  *)
(***************************************************************************)
\* C38: when decryptFile succeeds on a chunk list the store derived from one
\* encryptFile output by dropping a chunk, storing a chunk twice or changing
\* an index value, the returned bytes are the original file.
C38_FileIntegrity ==
    fileRun.op = "download" /\ fileRun.result.ok => fileRun.result.bytes = fileRun.fileData

(***************************************************************************)
(* Role checks of /respond and /confirm.                                   *)
(***************************************************************************)
\* the user a route serves for record k
RoleOf(k, route) == IF route = "respond" THEN k.responderId ELSE k.initiatorId

\* C39: a 200 of /respond goes to the user that is the record's responderId
\* and a 200 of /confirm to the user that is its initiatorId; a complete
\* request of any other user for the record is answered 404 and the
\* collection stays as it was.
C39_RoleChecks ==
    [][lastRoute' # lastRoute /\ lastRoute'.route \in {"respond", "confirm"} =>
          /\ lastRoute'.status = 200 =>
                \E k \in keyExchanges' :
                    k.id = lastRoute'.id /\ RoleOf(k, lastRoute'.route) = lastRoute'.userId
          /\ \A k \in keyExchanges :
                k.id = lastRoute'.id /\ RoleOf(k, lastRoute'.route) # lastRoute'.userId =>
                    lastRoute'.status = 404 /\ keyExchanges' = keyExchanges]_vars

\* the responder of a RESPONDED record called /confirm on it and got 404
C39_Witness ==
    \E k \in keyExchanges :
        /\ k.id = lastRoute.id /\ k.status = "RESPONDED"
        /\ lastRoute = Reply("confirm", k.responderId, 404, k.id)
        /\ k.initiatorId # k.responderId

====
